---- MODULE Spec2Model ----
(***************************************************************************)
(* The CHILD_SA creation task of the IKEv2 daemon                         *)
(* (src/libcharon/sa/ikev2/tasks/child_create.c) as a state machine: one   *)
(* initiator task and one responder task, each with the IKE_SA, kernel and *)
(* bus it talks to, and the messages between them.                         *)
(***************************************************************************)
EXTENDS Integers, Sequences, FiniteSets, TLC

(***************************************************************************)
(* Bounds of the model.                                                    *)
(***************************************************************************)
\* key exchange methods are 1..NumMethods
NumMethods == 2
\* the kernel hands out the SPIs 1..MaxSpi (0: allocation failed)
MaxSpi == 3
\* nonces are byte strings of at most MaxNonceLen bytes over 0..MaxByte
MaxNonceLen == 2
MaxByte == 2
\* times the IKE_SA may migrate the initiator task from outside
MaxMigrate == 1
MaxReqid == 2
MaxMark == 1
MaxForgedNotifies == 2
MaxFaults == 1
MaxForged == 2
\* labels are 1..MaxLabel
MaxLabel == 2
\* lists of at most MaxTsLen traffic selectors for the addresses 1..MaxTsHost
\* and the ports 0..MaxTsPort
MaxTsLen == 4
MaxTsHost == 2
MaxTsPort == 1

(***************************************************************************)
(* Program constants.                                                      *)
(***************************************************************************)
KE_NONE == 0
MAX_KEY_EXCHANGES == 8
KEY_EXCHANGE_METHOD == 4
ADDITIONAL_KEY_EXCHANGE_1 == 6
ADDITIONAL_KEY_EXCHANGE_7 == 12
\* the link value the responder emits, chunk_from_chars(0x42)
LINK_INITIAL == 66
\* notify types below this value are errors, the others status notifies
LAST_ERROR_NOTIFY == 16383
IPCOMP_NONE == 0
IPCOMP_DEFLATE == 2
IPCOMP_LZS == 3

Methods == 1..NumMethods
KeTypes == {KEY_EXCHANGE_METHOD} \cup
           (ADDITIONAL_KEY_EXCHANGE_1..ADDITIONAL_KEY_EXCHANGE_7)
Slots == 0..(MAX_KEY_EXCHANGES - 1)

\* a pointer that may be NULL is a sequence of length 0 or 1
NULL == <<>>
Ptr(x) == <<x>>
IsNull(p) == Len(p) = 0
Deref(p) == p[1]

\* a local variable: v is assigned e once and F is the code that follows
Let(e, F(_)) == F(e)

Min(a, b) == IF a < b THEN a ELSE b
Range(s) == {s[i] : i \in 1..Len(s)}
SeqsUpTo(S, n) == UNION {[1..k -> S] : k \in 0..n}

(***************************************************************************)
(* Proposals: per key exchange transform type the offered methods in order *)
(* of preference (none: the type is absent).                               *)
(***************************************************************************)
NoTransforms == [t \in KeTypes |-> <<>>]

Proposal(suite, spi, tf) ==
    [protocol |-> "ESP", suite |-> suite, spi |-> spi,
     tf |-> [t \in KeTypes |-> IF t \in DOMAIN tf THEN tf[t] ELSE <<>>]]

\* proposal_t.get_algorithm: the first transform of the type, if any
HasAlgorithm(p, t) == Len(p.tf[t]) > 0
GetAlgorithm(p, t) == IF Len(p.tf[t]) > 0 THEN p.tf[t][1] ELSE 0

\* proposal_t.has_transform
HasTransform(p, t, alg) == alg \in Range(p.tf[t])

\* proposal_t.set_spi
SetSpi(p, spi) == [p EXCEPT !.spi = spi]

\* proposal_t.promote_transform: move alg to the front, FALSE if absent
CanPromote(p, t, alg) == alg \in Range(p.tf[t])
PromoteTransform(p, t, alg) ==
    IF alg \in Range(p.tf[t])
    THEN [p EXCEPT !.tf[t] = <<alg>> \o SelectSeq(p.tf[t], LAMBDA a : a # alg)]
    ELSE p

\* a proposal without its key exchange transforms (PROPOSAL_SKIP_KE)
StripKe(p) == [p EXCEPT !.tf = NoTransforms]

(***************************************************************************)
(* Proposal selection (proposal_t.select, child_cfg_t.select_proposal).    *)
(***************************************************************************)
\* one transform type: the first method of the preferred side the other side
\* offers too; a side without the type matches a side that offers NONE
AlgoFound(pref, oth) ==
    IF Len(pref) = 0 /\ Len(oth) = 0 THEN TRUE
    ELSE IF Len(pref) = 0 THEN KE_NONE \in Range(oth)
    ELSE IF Len(oth) = 0 THEN KE_NONE \in Range(pref)
    ELSE \E i \in 1..Len(pref) : pref[i] \in Range(oth)

AlgoSelected(pref, oth) ==
    IF Len(pref) = 0 \/ Len(oth) = 0 THEN KE_NONE
    ELSE Let({i \in 1..Len(pref) : pref[i] \in Range(oth)}, LAMBDA hits :
             Let(CHOOSE i \in hits : \A j \in hits : i <= j, LAMBDA first :
             IF hits = {} THEN KE_NONE ELSE pref[first]))

ProposalMatches(cfgp, sup, skipKe, preferSupplied) ==
    /\ cfgp.protocol = sup.protocol
    /\ cfgp.suite = sup.suite
    /\ skipKe \/ \A t \in KeTypes :
           IF preferSupplied THEN AlgoFound(sup.tf[t], cfgp.tf[t])
                             ELSE AlgoFound(cfgp.tf[t], sup.tf[t])

\* the selected proposal: one method per matched type, method 0 is not added,
\* the SPI is the supplied proposal's
ProposalSelect(cfgp, sup, skipKe, preferSupplied) ==
    [protocol |-> sup.protocol, suite |-> sup.suite, spi |-> sup.spi,
     tf |-> [t \in KeTypes |->
                Let(       IF preferSupplied
                           THEN AlgoSelected(sup.tf[t], cfgp.tf[t])
                           ELSE AlgoSelected(cfgp.tf[t], sup.tf[t]), LAMBDA alg :
                    IF skipKe \/ alg = KE_NONE THEN <<>> ELSE <<alg>>)]]

\* child_cfg_t.select_proposal: the first match, by configured or by
\* supplied preference
CfgSelectProposal(cfg, supplied, skipKe, preferSupplied) ==
    Let(         {<<i, j>> \in (1..Len(cfg.proposals)) \X (1..Len(supplied)) :
                     ProposalMatches(cfg.proposals[i], supplied[j],
                                     skipKe, preferSupplied)}, LAMBDA pairs :
    LET before(a, b) == IF preferSupplied
                        THEN a[2] < b[2] \/ (a[2] = b[2] /\ a[1] <= b[1])
                        ELSE a[1] < b[1] \/ (a[1] = b[1] /\ a[2] <= b[2]) IN
        Let(CHOOSE a \in pairs : \A b \in pairs : before(a, b), LAMBDA best :
        IF pairs = {} THEN NULL
        ELSE Ptr(ProposalSelect(cfg.proposals[best[1]], supplied[best[2]],
                                skipKe, preferSupplied))))

\* child_cfg_t.get_proposals
CfgGetProposals(cfg, no_ke) ==
    [i \in 1..Len(cfg.proposals) |->
        IF no_ke THEN StripKe(cfg.proposals[i]) ELSE cfg.proposals[i]]

\* child_cfg_t.get_algorithm: the first configured method of the type
CfgGetAlgorithm(cfg, t) ==
    Let({i \in 1..Len(cfg.proposals) : HasAlgorithm(cfg.proposals[i], t)}, LAMBDA have :
        Let(CHOOSE i \in have : \A j \in have : i <= j, LAMBDA first :
        IF have = {} THEN KE_NONE ELSE GetAlgorithm(cfg.proposals[first], t)))

(***************************************************************************)
(* Child configurations.  The proposals follow the esp_proposals of the    *)
(* test configurations: method 1 is the classic primary method, method 2   *)
(* the second (post-quantum) one.                                          *)
(***************************************************************************)
ChildCfg(name, proposals, mode, ipcomp) ==
    [name |-> name, proposals |-> proposals, mode |-> mode,
     ipcomp |-> ipcomp, proxy |-> FALSE, label |-> 0, label_mode |-> "SYSTEM",
     dynamic_ts |-> mode # "TUNNEL", inactivity |-> 0]

\* esp_proposals = aes128gcm16-modp3072
CfgPfs ==
    ChildCfg("pfs", <<Proposal(1, 0, [t \in {KEY_EXCHANGE_METHOD} |-> <<1>>])>>,
             "TUNNEL", FALSE)
\* esp_proposals = aes128gcm128-ecp521-ke1_mlkem1024
CfgHybrid ==
    ChildCfg("hybrid",
             <<Proposal(1, 0, (KEY_EXCHANGE_METHOD :> <<1>>) @@
                              (ADDITIONAL_KEY_EXCHANGE_1 :> <<2>>))>>,
             "TUNNEL", FALSE)
\* esp_proposals = aes128gcm128-x25519-ke1_modp4096-ke3_mlkem768-ke3_none
CfgGap ==
    ChildCfg("gap",
             <<Proposal(1, 0, (KEY_EXCHANGE_METHOD :> <<1>>) @@
                              (ADDITIONAL_KEY_EXCHANGE_1 :> <<2>>) @@
                              ((ADDITIONAL_KEY_EXCHANGE_1 + 2) :> <<2, KE_NONE>>))>>,
             "TUNNEL", FALSE)
\* two primary methods in one proposal, the first preferred
CfgTwo ==
    ChildCfg("two", <<Proposal(1, 0, [t \in {KEY_EXCHANGE_METHOD} |-> <<1, 2>>])>>,
             "TUNNEL", FALSE)
\* the second primary method only
CfgAlt ==
    ChildCfg("alt", <<Proposal(1, 0, [t \in {KEY_EXCHANGE_METHOD} |-> <<2>>])>>,
             "TUNNEL", FALSE)

\* the first one with IPComp
CfgComp ==
    ChildCfg("comp", <<Proposal(1, 0, [t \in {KEY_EXCHANGE_METHOD} |-> <<1>>])>>,
             "TUNNEL", TRUE)

\* the primary method is optional, the additional one is not:
\* esp_proposals = aes128gcm128-x25519-none-ke1_mlkem768
CfgOpt ==
    ChildCfg("opt",
             <<Proposal(1, 0, (KEY_EXCHANGE_METHOD :> <<1, KE_NONE>>) @@
                              (ADDITIONAL_KEY_EXCHANGE_1 :> <<2>>))>>,
             "TUNNEL", FALSE)

\* two proposals, the first with method 1 only:
\* esp_proposals = aes128gcm16-modp3072,aes128gcm16-modp3072-x25519
CfgList ==
    ChildCfg("list",
             <<Proposal(1, 0, [t \in {KEY_EXCHANGE_METHOD} |-> <<1>>]),
               Proposal(1, 0, [t \in {KEY_EXCHANGE_METHOD} |-> <<1, 2>>])>>,
             "TUNNEL", FALSE)

Configs == {CfgPfs, CfgHybrid, CfgGap, CfgTwo, CfgAlt, CfgOpt, CfgList}

(***************************************************************************)
(* Notify types.                                                           *)
(***************************************************************************)
INVALID_SYNTAX == 7
NO_PROPOSAL_CHOSEN == 14
INVALID_KE_PAYLOAD == 17
SINGLE_PAIR_REQUIRED == 34
NO_ADDITIONAL_SAS == 35
INTERNAL_ADDRESS_FAILURE == 36
FAILED_CP_REQUIRED == 37
TS_UNACCEPTABLE == 38
INVALID_SELECTORS == 39
TEMPORARY_FAILURE == 43
STATE_NOT_FOUND == 47
IPCOMP_SUPPORTED == 16387
USE_TRANSPORT_MODE == 16391
ESP_TFC_PADDING_NOT_SUPPORTED == 16394
ADDITIONAL_KEY_EXCHANGE == 16441
USE_BEET_MODE == 40961

Notify(type, data) == [type |-> type, data |-> data]

\* htons() and chunk_from_thing() of a 16 bit value, and untoh16()
Htons16(alg) == <<(alg \div 256) % 256, alg % 256>>
Untoh16(data) == data[1] * 256 + data[2]

(***************************************************************************)
(* Messages.  A payload kind that is absent is NULL; notifies, KE and      *)
(* DELETE payloads are kept in their order in the message.                 *)
(***************************************************************************)
Message(exchange) ==
    [exchange |-> exchange, sa |-> NULL, nonce |-> NULL, ke |-> <<>>,
     tsi |-> NULL, tsr |-> NULL, label_i |-> 0, label_r |-> 0,
     notifies |-> <<>>, del |-> <<>>]

AddNotify(m, type, data) ==
    [m EXCEPT !.notifies = Append(@, Notify(type, data))]

\* message_t.get_notify: the first notify of the type
HasNotify(m, type) == \E i \in 1..Len(m.notifies) : m.notifies[i].type = type
GetNotify(m, type) ==
    Let({i \in 1..Len(m.notifies) : m.notifies[i].type = type}, LAMBDA hits :
        m.notifies[CHOOSE i \in hits : \A j \in hits : i <= j])

(***************************************************************************)
(* The task object (private_child_create_t).                               *)
(***************************************************************************)
NoKeyExchange == [type |-> 0, method |-> KE_NONE, done |-> FALSE]

ChildData ==
    [reqid |-> 0, mark_in |-> 0, mark_out |-> 0, if_id_in |-> 0,
     if_id_out |-> 0, label |-> 0, if_id_in_def |-> 0, if_id_out_def |-> 0,
     encap |-> FALSE]

\* child_create_create(); tsi, tsr: the selectors of the triggering packet
child_create_create(config, rekey, tsi, tsr) ==
    [initiator |-> ~IsNull(config),
     packet_tsi |-> tsi, packet_tsr |-> tsr,
     my_nonce |-> <<>>, other_nonce |-> <<>>,
     config |-> config, proposals |-> NULL, proposal |-> NULL,
     tsi |-> NULL, tsr |-> NULL, labels_i |-> 0, labels_r |-> 0,
     key_exchanges |-> [s \in Slots |-> NoKeyExchange],
     ke_index |-> 0, ke_method |-> KE_NONE, ke |-> NULL, kes |-> <<>>,
     ke_failed |-> FALSE, link |-> <<>>,
     mode |-> "TUNNEL", tfcv3 |-> TRUE,
     ipcomp |-> IPCOMP_NONE, ipcomp_received |-> IPCOMP_NONE,
     proto |-> "NONE", my_spi |-> 0, other_spi |-> 0,
     my_cpi |-> 0, other_cpi |-> 0,
     child |-> ChildData, child_sa |-> NULL,
     established |-> FALSE, rekey |-> rekey, retry |-> FALSE,
     aborted |-> FALSE,
     build |-> IF IsNull(config) THEN "build_r" ELSE "build_i",
     process |-> IF IsNull(config) THEN "process_r" ELSE "process_i"]

(***************************************************************************)
(* Key exchange runner.                                                    *)
(***************************************************************************)
\* a key exchange object of the keymat: its method, whose secret it holds
\* and whose public value was applied to it ("none": not yet)
KeyExchange(method, owner) == [method |-> method, owner |-> owner, peer |-> "none"]

\* a KE payload: the method, whose public value it carries, and whether
\* set_public_key accepts the value
KePayload(method, from, ok) == [method |-> method, from |-> from, ok |-> ok]

Owner(t) == IF t.initiator THEN "i" ELSE "r"

\* stops at the first additional transform type the proposal lacks
RECURSIVE PrefixLoop(_, _, _, _)
PrefixLoop(p, kx, t, i) ==
    IF t > ADDITIONAL_KEY_EXCHANGE_7 \/ ~HasAlgorithm(p, t) THEN kx
    ELSE PrefixLoop(p, [kx EXCEPT ![i].type = t, ![i].method = GetAlgorithm(p, t)],
                    t + 1, i + 1)

determine_prefix(t) ==
    Let(Deref(t.proposal), LAMBDA p :
        IF ~HasAlgorithm(p, KEY_EXCHANGE_METHOD) THEN t
        ELSE [t EXCEPT !.key_exchanges =
                 PrefixLoop(p,
                     [@ EXCEPT ![0].type = KEY_EXCHANGE_METHOD,
                               ![0].method = GetAlgorithm(p, KEY_EXCHANGE_METHOD)],
                     ADDITIONAL_KEY_EXCHANGE_1, 1)])

\* the loop of determine_key_exchanges over the additional transform types
RECURSIVE DetermineLoop(_, _, _, _)
DetermineLoop(p, kx, t, i) ==
    IF t > ADDITIONAL_KEY_EXCHANGE_7 THEN kx
    ELSE IF HasAlgorithm(p, t)
         THEN DetermineLoop(p, [kx EXCEPT ![i].type = t,
                                         ![i].method = GetAlgorithm(p, t)],
                            t + 1, i + 1)
         ELSE DetermineLoop(p, kx, t + 1, i)

determine_key_exchanges(t) ==
    Let(Deref(t.proposal), LAMBDA p :
        IF ~HasAlgorithm(p, KEY_EXCHANGE_METHOD) THEN t
        ELSE [t EXCEPT !.key_exchanges =
                 DetermineLoop(p,
                     [@ EXCEPT ![0].type = KEY_EXCHANGE_METHOD,
                               ![0].method = GetAlgorithm(p, KEY_EXCHANGE_METHOD)],
                     ADDITIONAL_KEY_EXCHANGE_1, 1)])

additional_key_exchange_required(t) ==
    \E i \in Slots : /\ i >= t.ke_index
                     /\ t.key_exchanges[i].type # 0
                     /\ ~t.key_exchanges[i].done

clear_key_exchanges(t) ==
    [t EXCEPT !.key_exchanges = [s \in Slots |-> NoKeyExchange],
              !.ke_index = 0, !.kes = <<>>]

\* the method negotiated for the current slot
CurrentMethod(t) ==
    IF t.ke_index \in Slots THEN t.key_exchanges[t.ke_index].method ELSE KE_NONE

\* process_ke_payload; create_ok: the keymat supports the received method
process_ke_payload(t, pl, create_ok) ==
    Let(CurrentMethod(t), LAMBDA method :
        Let(pl.method, LAMBDA received :
        IF method # KE_NONE /\ method # received
        THEN [t EXCEPT !.ke_failed = TRUE]
        ELSE Let([t EXCEPT !.ke_method = received], LAMBDA t1 :
                 Let(  IF ~t1.initiator
                       THEN [t1 EXCEPT !.ke = IF create_ok
                                              THEN Ptr(KeyExchange(received, Owner(t)))
                                              ELSE NULL]
                       ELSE IF ~IsNull(t1.ke) /\ Deref(t1.ke).method # received
                            THEN [t1 EXCEPT !.ke_failed = TRUE]
                            ELSE t1, LAMBDA t2 :
                 IF ~IsNull(t2.ke) /\ ~t2.ke_failed
                 THEN IF pl.ok
                      THEN [t2 EXCEPT !.ke = Ptr([Deref(@) EXCEPT !.peer = pl.from])]
                      ELSE [t2 EXCEPT !.ke_failed = TRUE]
                 ELSE t2))))

\* check_ke_method: ok FALSE with the proposal's method in req, or ok TRUE
check_ke_method(t) ==
    Let(Deref(t.proposal), LAMBDA p :
        IF ~HasTransform(p, KEY_EXCHANGE_METHOD, t.ke_method)
        THEN IF HasAlgorithm(p, KEY_EXCHANGE_METHOD)
             THEN [t |-> t, ok |-> FALSE,
                   req |-> GetAlgorithm(p, KEY_EXCHANGE_METHOD)]
             ELSE [t |-> [t EXCEPT !.ke = NULL, !.ke_method = KE_NONE,
                                   !.ke_failed = FALSE],
                   ok |-> TRUE, req |-> KE_NONE]
        ELSE [t |-> t, ok |-> TRUE, req |-> KE_NONE])

\* counts the key exchange without marking its slot
key_exchange_done_unmarked(t) ==
    IF IsNull(t.ke) THEN [t |-> t, all |-> TRUE]
    ELSE Let([t EXCEPT !.ke_index = @ + 1], LAMBDA t1 :
             [t |-> [t1 EXCEPT !.kes = Append(@, Deref(t.ke)), !.ke = NULL],
              all |-> t1.ke_index >= Cardinality({s \in Slots :
                                                   t.key_exchanges[s].type # 0})])

\* key_exchange_done: all TRUE once all key exchanges are done
key_exchange_done(t) ==
    IF IsNull(t.ke) THEN [t |-> t, all |-> TRUE]
    ELSE Let(      [t EXCEPT !.key_exchanges[t.ke_index].done = TRUE,
                             !.ke_index = @ + 1], LAMBDA t1 :
             Let(additional_key_exchange_required(t1), LAMBDA additional_ke :
             [t |-> [t1 EXCEPT !.kes = Append(@, Deref(t.ke)), !.ke = NULL],
              all |-> ~additional_ke]))

(***************************************************************************)
(* Traffic selectors: host is the single address of a host selector, 0 for *)
(* a selector of more than one address.                                    *)
(***************************************************************************)
Ts(host, port) == [host |-> host, port |-> port]

\* traffic_selector_t.is_host: host 0 stands for NULL (any single host)
IsHost(ts, host) == IF host = 0 THEN ts.host # 0 ELSE ts.host = host

\* ts_list_is_host
ts_list_is_host(list, host) == \A i \in 1..Len(list) : IsHost(list[i], host)

\* takes every host selector, whatever its address
RECURSIVE TransportNatLoopAnyHost(_, _, _, _)
TransportNatLoopAnyHost(in, i, first, ike) ==
    IF i > Len(in) THEN <<>>
    ELSE IF IsHost(in[i], 0)
         THEN <<[in[i] EXCEPT !.host = ike]>> \o
              TransportNatLoopAnyHost(in, i + 1, first, ike)
         ELSE TransportNatLoopAnyHost(in, i + 1, first, ike)

\* the loop of get_transport_nat_ts: first is the address of the first host
\* selector (0: none yet)
RECURSIVE TransportNatLoop(_, _, _, _)
TransportNatLoop(in, i, first, ike) ==
    IF i > Len(in) THEN <<>>
    ELSE IF IsHost(in[i], first)
         THEN <<[in[i] EXCEPT !.host = ike]>> \o
              TransportNatLoop(in, i + 1,
                               IF first = 0 THEN in[i].host ELSE first, ike)
         ELSE TransportNatLoop(in, i + 1, first, ike)

get_transport_nat_ts(x, local, in) ==
    TransportNatLoop(in, 1, 0, IF local THEN x.me ELSE x.other)

\* child_cfg_t.get_traffic_selectors with a supplied list: what the
\* configured selectors leave of it
CfgNarrow(how, host, in) ==
    CASE how = "keep" -> in
      [] how = "head" -> IF Len(in) = 0 THEN <<>> ELSE <<in[1]>>
      [] how = "host" -> SelectSeq([i \in 1..Len(in) |->
                                       IF in[i].host = 0
                                       THEN [in[i] EXCEPT !.host = host]
                                       ELSE in[i]],
                                   LAMBDA ts : ts.host = host)
      [] OTHER -> <<>>

NarrowHows == {"keep", "head", "host", "none"}

\* narrow_ts
narrow_ts(t, x, local, in, how) ==
    Let(IF local THEN x.nat_here ELSE x.nat_there, LAMBDA cond :
        Let(IF local THEN x.me ELSE x.other, LAMBDA host :
        IF t.mode = "TRANSPORT" /\ cond
        THEN CfgNarrow(how, host, get_transport_nat_ts(x, local, in))
        ELSE CfgNarrow(how, host, in)))

\* looks at the selectors only, not at the configured mode
check_mode_selectors(t, i, r) ==
    Let(Deref(t.config), LAMBDA cfg :
        Let(Deref(t.tsi), LAMBDA tsi :
        Let(Deref(t.tsr), LAMBDA tsr :
        CASE t.mode = "TRANSPORT" ->
               cfg.proxy \/ (ts_list_is_host(tsi, i) /\ ts_list_is_host(tsr, r))
          [] t.mode = "BEET" ->
               ts_list_is_host(tsi, 0) /\ ts_list_is_host(tsr, 0)
          [] OTHER -> TRUE)))

\* check_mode
check_mode(t, i, r) ==
    Let(Deref(t.config), LAMBDA cfg :
        Let(Deref(t.tsi), LAMBDA tsi :
        Let(Deref(t.tsr), LAMBDA tsr :
        CASE t.mode = "TRANSPORT" ->
               IF ~cfg.proxy /\ (~ts_list_is_host(tsi, i) \/ ~ts_list_is_host(tsr, r))
               THEN FALSE
               ELSE cfg.mode = "TRANSPORT"
          [] t.mode = "BEET" ->
               IF ~ts_list_is_host(tsi, 0) \/ ~ts_list_is_host(tsr, 0)
               THEN FALSE
               ELSE cfg.mode = "BEET"
          [] OTHER -> TRUE)))

(***************************************************************************)
(* CHILD_SA objects and the host a task runs on: its IKE_SA, and what the  *)
(* task did to the kernel, the scheduler and the bus.                      *)
(***************************************************************************)
\* child_sa_create()
child_sa_create(cfg, child) ==
    [state |-> "CREATED", config |-> cfg.name, reqid |-> child.reqid,
     mark_in |-> child.mark_in, mark_out |-> child.mark_out,
     if_id_in |-> IF child.if_id_in # 0 THEN child.if_id_in ELSE child.if_id_in_def,
     if_id_out |-> IF child.if_id_out # 0 THEN child.if_id_out ELSE child.if_id_out_def,
     label |-> child.label, my_spi |-> 0, my_cpi |-> 0,
     mode |-> "TUNNEL", ipcomp |-> IPCOMP_NONE, protocol |-> "NONE",
     proposal |-> NULL, my_ts |-> <<>>, other_ts |-> <<>>]

Host(me, other) ==
    [me |-> me, other |-> other,
     child_sas |-> <<>>,
     state |-> "ESTABLISHED", authenticated |-> TRUE, redirected |-> FALSE,
     childless |-> "NEVER", ext_childless |-> FALSE, ext_strongswan |-> FALSE,
     nat_here |-> FALSE, nat_there |-> FALSE,
     if_id_in |-> 0, if_id_out |-> 0,
     close_ike_on_child_failure |-> FALSE, esp_v3_tfc |-> TRUE,
     prefer_configured |-> TRUE, supported |-> Methods,
     reqid_refs |-> [r \in 1..MaxReqid |-> 0],
     \* what the task did
     installs |-> <<>>, updown |-> 0, retries |-> 0, queued |-> <<>>,
     delete_jobs |-> 0,
     alerts |-> 0, created |-> 0, destroyed |-> 0]

\* a CHILD_SA object is destroyed (by the task)
DestroyChild(t, x) ==
    IF IsNull(t.child_sa) THEN x ELSE [x EXCEPT !.destroyed = @ + 1]

\* takes any SPI for a valid one
allocate_spi_unchecked(t, spi) ==
    [t |-> [t EXCEPT !.proto = "ESP", !.my_spi = spi,
                     !.child_sa = Ptr([Deref(@) EXCEPT !.my_spi = spi])],
     ok |-> TRUE]

\* allocate_spi; spi: what child_sa_t.alloc_spi returns
allocate_spi(t, spi) ==
    Let(         IF t.initiator
                 THEN IF Len(Deref(t.proposals)) > 0
                      THEN Deref(t.proposals)[1].protocol ELSE "ESP"
                 ELSE Deref(t.proposal).protocol, LAMBDA proto :
        [t |-> [t EXCEPT !.proto = proto, !.my_spi = spi,
                         !.child_sa = Ptr([Deref(@) EXCEPT !.my_spi = spi])],
         ok |-> spi # 0])

\* update_and_check_proposals
update_and_check_proposals(t) ==
    Let(Deref(t.proposals), LAMBDA props :
        Let([i \in 1..Len(props) |-> SetSpi(props[i], t.my_spi)], LAMBDA withspi :
    LET has(p) == CanPromote(p, KEY_EXCHANGE_METHOD, t.ke_method) IN
        Let(SelectSeq(withspi, has), LAMBDA kept :
        Let(SelectSeq(withspi, LAMBDA p : ~has(p)), LAMBDA other_ke_methods :
        Let(        [i \in 1..Len(kept) |->
                        PromoteTransform(kept[i], KEY_EXCHANGE_METHOD, t.ke_method)], LAMBDA promoted :
        IF t.ke_method = KE_NONE
        THEN [t |-> [t EXCEPT !.proposals = Ptr(withspi)], ok |-> TRUE]
        ELSE [t |-> [t EXCEPT !.proposals = Ptr(promoted \o other_ke_methods)],
              ok |-> Len(kept) > 0])))))

\* narrows the selectors and takes the mode as it is
narrow_ts_only(t, x, e) ==
    Let([t EXCEPT !.child_sa = Ptr([Deref(@) EXCEPT !.proposal = t.proposal])], LAMBDA t0 :
        Let(     IF t.initiator
                 THEN narrow_ts(t0, x, TRUE, Deref(t.tsi), e.narrow_my)
                 ELSE narrow_ts(t0, x, TRUE, Deref(t.tsr), e.narrow_my), LAMBDA my_ts :
        Let(        IF t.initiator
                    THEN narrow_ts(t0, x, FALSE, Deref(t.tsr), e.narrow_other)
                    ELSE narrow_ts(t0, x, FALSE, Deref(t.tsi), e.narrow_other), LAMBDA other_ts :
        IF Len(my_ts) = 0 \/ Len(other_ts) = 0
        THEN [t |-> t0, st |-> "NOT_FOUND"]
        ELSE IF t.initiator
             THEN [t |-> [t0 EXCEPT !.tsi = Ptr(my_ts), !.tsr = Ptr(other_ts)],
                   st |-> "SUCCESS"]
             ELSE [t |-> [t0 EXCEPT !.tsr = Ptr(my_ts), !.tsi = Ptr(other_ts)],
                   st |-> "SUCCESS"])))

\* narrow_and_check_ts; e.narrow_my, e.narrow_other: what the configuration
\* and the narrow hooks leave of the selectors
narrow_and_check_ts(t, x, e) ==
    Let([t EXCEPT !.child_sa = Ptr([Deref(@) EXCEPT !.proposal = t.proposal])], LAMBDA t0 :
        Let(     IF t.initiator
                 THEN narrow_ts(t0, x, TRUE, Deref(t.tsi), e.narrow_my)
                 ELSE narrow_ts(t0, x, TRUE, Deref(t.tsr), e.narrow_my), LAMBDA my_ts :
        Let(        IF t.initiator
                    THEN narrow_ts(t0, x, FALSE, Deref(t.tsr), e.narrow_other)
                    ELSE narrow_ts(t0, x, FALSE, Deref(t.tsi), e.narrow_other), LAMBDA other_ts :
        IF Len(my_ts) = 0 \/ Len(other_ts) = 0
        THEN [t |-> t0, st |-> "NOT_FOUND"]
        ELSE IF t.initiator
             THEN Let([t0 EXCEPT !.tsi = Ptr(my_ts), !.tsr = Ptr(other_ts)], LAMBDA t1 :
                      IF ~check_mode(t1, x.me, x.other)
                      THEN [t |-> t1, st |-> "FAILED"]
                      ELSE [t |-> t1, st |-> "SUCCESS"])
             ELSE Let([t0 EXCEPT !.tsr = Ptr(my_ts), !.tsi = Ptr(other_ts)], LAMBDA t1 :
                      IF ~check_mode(t1, x.other, x.me)
                      THEN [t |-> [t1 EXCEPT !.mode = "TUNNEL"], st |-> "SUCCESS"]
                      ELSE [t |-> t1, st |-> "SUCCESS"]))))

\* derives with the own nonce first
DerivedKeysMine(t, dir) ==
    [dir |-> dir, kes |-> t.kes, nonce_i |-> t.my_nonce, nonce_r |-> t.other_nonce]

\* keymat_v2_t.derive_child_keys: the material the keys are derived from
DerivedKeys(t, dir) ==
    [dir |-> dir, kes |-> t.kes,
     nonce_i |-> IF t.initiator THEN t.my_nonce ELSE t.other_nonce,
     nonce_r |-> IF t.initiator THEN t.other_nonce ELSE t.my_nonce]

\* leaves the outbound SA alone unless the inbound SA was installed
InboundFirst(t, derived, status_i, out_op, status_o, pol, status) ==
    [initiator |-> t.initiator, rekey |-> t.rekey,
     proposal |-> Deref(t.proposal), kes |-> t.kes,
     plan |-> t.key_exchanges, derived |-> derived,
     in_op |-> derived, in_spi |-> t.my_spi, in_cpi |-> t.my_cpi,
     in_keys |-> DerivedKeys(t, IF t.initiator THEN "r" ELSE "i"),
     status_i |-> status_i,
     out_op |-> IF status_i = "SUCCESS" THEN out_op ELSE "none",
     out_spi |-> t.other_spi, out_cpi |-> t.other_cpi,
     out_keys |-> DerivedKeys(t, IF t.initiator THEN "i" ELSE "r"),
     status_o |-> status_o,
     policies |-> pol, status |-> status]

\* one run of install_child_sa as the kernel and the keymat saw it
InstallAttempt(t, derived, status_i, out_op, status_o, pol, status) ==
    [initiator |-> t.initiator, rekey |-> t.rekey,
     proposal |-> Deref(t.proposal), kes |-> t.kes,
     plan |-> t.key_exchanges, derived |-> derived,
     in_op |-> derived, in_spi |-> t.my_spi, in_cpi |-> t.my_cpi,
     in_keys |-> DerivedKeys(t, IF t.initiator THEN "r" ELSE "i"),
     status_i |-> status_i,
     out_op |-> out_op, out_spi |-> t.other_spi, out_cpi |-> t.other_cpi,
     out_keys |-> DerivedKeys(t, IF t.initiator THEN "i" ELSE "r"),
     status_o |-> status_o,
     policies |-> pol, status |-> status]

\* goes on to the policies whatever the outbound SA returned
install_child_sa_inbound(t, x, e) ==
    IF ~t.initiator /\ e.post_empty
    THEN [t |-> t, x |-> x, st |-> "NOT_FOUND"]
    ELSE
    Let(      [t EXCEPT !.child_sa = Ptr([Deref(@) EXCEPT
                            !.ipcomp = t.ipcomp, !.mode = t.mode,
                            !.protocol = Deref(t.proposal).protocol,
                            !.state = "INSTALLING",
                            !.my_ts = IF t.initiator THEN Deref(t.tsi)
                                                     ELSE Deref(t.tsr),
                            !.other_ts = IF t.initiator THEN Deref(t.tsr)
                                                        ELSE Deref(t.tsi)])], LAMBDA t1 :
        Let(  IF t1.my_cpi = 0 \/ t1.other_cpi = 0 \/ t1.ipcomp = IPCOMP_NONE
              THEN [t1 EXCEPT !.my_cpi = 0, !.other_cpi = 0,
                              !.ipcomp = IPCOMP_NONE]
              ELSE t1, LAMBDA t2 :
        Let(IF e.derive_ok THEN e.st_in ELSE "FAILED", LAMBDA status_i :
        Let(IF e.derive_ok THEN e.st_out ELSE "FAILED", LAMBDA status_o :
        Let(      IF ~e.derive_ok THEN "none"
                  ELSE IF t2.rekey THEN "register" ELSE "install", LAMBDA out_op :
        Let(status_i = "SUCCESS", LAMBDA sad_ok :
        Let(      IF ~sad_ok THEN "FAILED"
                  ELSE IF e.st_pol # "SUCCESS" THEN "NOT_FOUND" ELSE "SUCCESS", LAMBDA status :
        Let(      IF ~sad_ok THEN "ALERT_INSTALL_CHILD_SA_FAILED"
                  ELSE IF e.st_pol # "SUCCESS" THEN "ALERT_INSTALL_CHILD_POLICY_FAILED"
                  ELSE "none", LAMBDA alert :
        Let(   InstallAttempt(t2, e.derive_ok, status_i, out_op, status_o,
                              sad_ok, status)
               @@ [alert |-> alert,
                   status_p |-> IF sad_ok THEN e.st_pol ELSE "none"], LAMBDA att :
        Let([x EXCEPT !.installs = Append(@, att)], LAMBDA x1 :
        IF status # "SUCCESS"
        THEN [t |-> t2, x |-> x1, st |-> status]
        ELSE Let([Deref(t2.child_sa) EXCEPT !.state = "INSTALLED"], LAMBDA child :
                 [t |-> [t2 EXCEPT !.child_sa = Ptr(child),
                                   !.established = TRUE],
                  x |-> [x1 EXCEPT !.child_sas = Append(@, child)],
                  st |-> "SUCCESS"])))))))))))

\* install_child_sa; e.post_empty: the NARROW_RESPONDER_POST hook leaves no
\* selectors, e.derive_ok, e.st_in, e.st_out, e.st_pol: what the keymat and
\* the kernel return
install_child_sa(t, x, e) ==
    IF ~t.initiator /\ e.post_empty
    THEN [t |-> t, x |-> x, st |-> "NOT_FOUND"]
    ELSE
    Let(      [t EXCEPT !.child_sa = Ptr([Deref(@) EXCEPT
                            !.ipcomp = t.ipcomp, !.mode = t.mode,
                            !.protocol = Deref(t.proposal).protocol,
                            !.state = "INSTALLING",
                            !.my_ts = IF t.initiator THEN Deref(t.tsi)
                                                     ELSE Deref(t.tsr),
                            !.other_ts = IF t.initiator THEN Deref(t.tsr)
                                                        ELSE Deref(t.tsi)])], LAMBDA t1 :
        Let(  IF t1.my_cpi = 0 \/ t1.other_cpi = 0 \/ t1.ipcomp = IPCOMP_NONE
              THEN [t1 EXCEPT !.my_cpi = 0, !.other_cpi = 0,
                              !.ipcomp = IPCOMP_NONE]
              ELSE t1, LAMBDA t2 :
        Let(IF e.derive_ok THEN e.st_in ELSE "FAILED", LAMBDA status_i :
        Let(IF e.derive_ok THEN e.st_out ELSE "FAILED", LAMBDA status_o :
        Let(      IF ~e.derive_ok THEN "none"
                  ELSE IF t2.rekey THEN "register" ELSE "install", LAMBDA out_op :
        Let(status_i = "SUCCESS" /\ status_o = "SUCCESS", LAMBDA sad_ok :
        Let(      IF ~sad_ok THEN "FAILED"
                  ELSE IF e.st_pol # "SUCCESS" THEN "NOT_FOUND" ELSE "SUCCESS", LAMBDA status :
        Let(      IF ~sad_ok THEN "ALERT_INSTALL_CHILD_SA_FAILED"
                  ELSE IF e.st_pol # "SUCCESS" THEN "ALERT_INSTALL_CHILD_POLICY_FAILED"
                  ELSE "none", LAMBDA alert :
        Let(   InstallAttempt(t2, e.derive_ok, status_i, out_op, status_o,
                              sad_ok, status)
               @@ [alert |-> alert,
                   status_p |-> IF sad_ok THEN e.st_pol ELSE "none"], LAMBDA att :
        Let([x EXCEPT !.installs = Append(@, att)], LAMBDA x1 :
        IF status # "SUCCESS"
        THEN [t |-> t2, x |-> x1, st |-> status]
        ELSE Let([Deref(t2.child_sa) EXCEPT !.state = "INSTALLED"], LAMBDA child :
                 [t |-> [t2 EXCEPT !.child_sa = Ptr(child),
                                   !.established = TRUE],
                  x |-> [x1 EXCEPT !.child_sas = Append(@, child)],
                  st |-> "SUCCESS"])))))))))))

\* select_proposal
select_proposal(t, x, no_ke) ==
    IF IsNull(t.proposals) THEN [t |-> t, ok |-> FALSE]
    ELSE Let(       CfgSelectProposal(Deref(t.config), Deref(t.proposals),
                                      no_ke, ~x.prefer_configured), LAMBDA sel :
             [t |-> [t EXCEPT !.proposal = sel], ok |-> ~IsNull(sel)])

\* add_ke_payload; pld_ok: ke_payload_create_from_key_exchange succeeds
add_ke_payload(t, m, pld_ok) ==
    Let(      IF ~IsNull(t.ke) THEN t.ke
              ELSE IF Len(t.kes) > 0 THEN Ptr(t.kes[Len(t.kes)]) ELSE NULL, LAMBDA ke :
        IF IsNull(ke) THEN [m |-> m, ok |-> TRUE]
        ELSE IF ~pld_ok THEN [m |-> m, ok |-> FALSE]
        ELSE [m |-> [m EXCEPT !.ke = Append(@, KePayload(Deref(ke).method,
                                                         Deref(ke).owner, TRUE))],
              ok |-> TRUE])

\* adds the KE payload only
build_payloads_no_link(t, m, pld_ok) == add_ke_payload(t, m, pld_ok)

\* build_payloads_multi_ke
build_payloads_multi_ke(t, m, pld_ok) ==
    Let(add_ke_payload(t, m, pld_ok), LAMBDA r :
        IF ~r.ok THEN r
        ELSE IF Len(t.link) > 0
             THEN [m |-> AddNotify(r.m, ADDITIONAL_KEY_EXCHANGE, t.link), ok |-> TRUE]
             ELSE r)

\* build_payloads
build_payloads(t, x, m, pld_ok) ==
    IF m.exchange = "IKE_FOLLOWUP_KE" THEN build_payloads_multi_ke(t, m, pld_ok)
    ELSE
    Let(      [m EXCEPT !.sa = IF t.initiator THEN t.proposals
                               ELSE Ptr(<<Deref(t.proposal)>>)], LAMBDA m1 :
        Let(  IF m.exchange = "CREATE_CHILD_SA"
              THEN [m1 EXCEPT !.nonce = Ptr(t.my_nonce)] ELSE m1, LAMBDA m2 :
        Let(  IF Len(t.link) > 0
              THEN AddNotify(m2, ADDITIONAL_KEY_EXCHANGE, t.link) ELSE m2, LAMBDA m3 :
        Let(add_ke_payload(t, m3, pld_ok), LAMBDA r :
        Let(  [r.m EXCEPT !.tsi = t.tsi, !.tsr = t.tsr,
                          !.label_i = t.child.label, !.label_r = t.child.label], LAMBDA m4 :
        Let(  CASE t.mode = "TRANSPORT" -> AddNotify(m4, USE_TRANSPORT_MODE, <<>>)
                [] t.mode = "BEET" -> AddNotify(m4, USE_BEET_MODE, <<>>)
                [] OTHER -> m4, LAMBDA m5 :
        Let(  IF ~x.esp_v3_tfc
              THEN AddNotify(m5, ESP_TFC_PADDING_NOT_SUPPORTED, <<>>) ELSE m5, LAMBDA m6 :
        IF ~r.ok THEN r ELSE [m |-> m6, ok |-> TRUE])))))))

\* keymat_t.create_ke
CreateKe(t, x, method) ==
    IF method \in x.supported THEN Ptr(KeyExchange(method, Owner(t))) ELSE NULL

\* child_cfg_t.get_traffic_selectors without a supplied list
CfgGetTs(cfg, host) == IF cfg.dynamic_ts THEN <<Ts(host, 0)>> ELSE <<Ts(0, 0)>>

\* the data of an IPCOMP_SUPPORTED notify: the CPI as it lies in memory and
\* the transform
IpcompData(cpi, ipcomp) == <<cpi % 256, (cpi \div 256) % 256, ipcomp>>
IpcompCpi(data) == data[1] + 256 * data[2]

\* add_ipcomp_notify; cpi: what child_sa_t.alloc_cpi returns
add_ipcomp_notify(t, m, ipcomp, cpi) ==
    Let(      [t EXCEPT !.my_cpi = cpi,
                        !.child_sa = Ptr([Deref(@) EXCEPT !.my_cpi = cpi])], LAMBDA t1 :
        IF cpi # 0
        THEN [t |-> [t1 EXCEPT !.ipcomp = ipcomp],
              m |-> AddNotify(m, IPCOMP_SUPPORTED, IpcompData(cpi, ipcomp))]
        ELSE [t |-> t1, m |-> m])

\* handle_notify
handle_notify(t, x, n) ==
    CASE n.type = USE_TRANSPORT_MODE -> [t EXCEPT !.mode = "TRANSPORT"]
      [] n.type = USE_BEET_MODE ->
           IF x.ext_strongswan THEN [t EXCEPT !.mode = "BEET"] ELSE t
      [] n.type = IPCOMP_SUPPORTED ->
           IF n.data[3] = IPCOMP_DEFLATE
           THEN [t EXCEPT !.other_cpi = IpcompCpi(n.data),
                          !.ipcomp_received = IPCOMP_DEFLATE]
           ELSE t
      [] n.type = ESP_TFC_PADDING_NOT_SUPPORTED -> [t EXCEPT !.tfcv3 = FALSE]
      [] OTHER -> t

RECURSIVE NotifyLoop(_, _, _, _)
NotifyLoop(t, x, ns, i) ==
    IF i > Len(ns) THEN t ELSE NotifyLoop(handle_notify(t, x, ns[i]), x, ns, i + 1)

RECURSIVE KeLoop(_, _, _, _)
KeLoop(t, x, kes, i) ==
    IF i > Len(kes) THEN t
    ELSE KeLoop(process_ke_payload(t, kes[i], kes[i].method \in x.supported),
                x, kes, i + 1)

\* process_payloads
process_payloads(t, x, m) ==
    Let([t EXCEPT !.mode = "TUNNEL"], LAMBDA t0 :
        Let(IF IsNull(m.sa) THEN t0 ELSE [t0 EXCEPT !.proposals = m.sa], LAMBDA t1 :
        Let(KeLoop(t1, x, m.ke, 1), LAMBDA t2 :
        Let(  IF IsNull(m.tsi) THEN t2
              ELSE [t2 EXCEPT !.tsi = m.tsi, !.labels_i = m.label_i], LAMBDA t3 :
        Let(  IF IsNull(m.tsr) THEN t3
              ELSE [t3 EXCEPT !.tsr = m.tsr, !.labels_r = m.label_r], LAMBDA t4 :
        NotifyLoop(t4, x, m.notifies, 1))))))

\* generic_label_only
generic_label_only(t) ==
    Let(Deref(t.config), LAMBDA cfg :
        cfg.label # 0 /\ t.child.label = 0 /\ cfg.label_mode = "SELINUX")

\* never defers
defer_never(t, x) == "NOT_SUPPORTED"

\* defer_child_sa
defer_child_sa(t, x) ==
    IF x.ext_childless
    THEN IF x.childless = "PREFER" \/ x.childless = "FORCE" \/ generic_label_only(t)
         THEN "NEED_MORE" ELSE "NOT_SUPPORTED"
    ELSE IF x.childless = "FORCE" THEN "DESTROY_ME" ELSE "NOT_SUPPORTED"

child_sa_equals_loose(a, b) ==
    /\ a.config = b.config
    /\ a.mark_in = b.mark_in /\ a.mark_out = b.mark_out
    /\ a.if_id_in = b.if_id_in /\ a.if_id_out = b.if_id_out
    /\ a.label = b.label

\* child_sa_equals
child_sa_equals(a, b) ==
    /\ a.config = b.config
    /\ (a.reqid = 0 \/ b.reqid = 0 \/ a.reqid = b.reqid)
    /\ a.mark_in = b.mark_in /\ a.mark_out = b.mark_out
    /\ a.if_id_in = b.if_id_in /\ a.if_id_out = b.if_id_out
    /\ a.label = b.label

no_duplicate(t, x) == FALSE

\* check_for_duplicate
check_for_duplicate(t, x) ==
    \E i \in 1..Len(x.child_sas) :
        /\ x.child_sas[i].state = "INSTALLED"
        /\ child_sa_equals(x.child_sas[i], Deref(t.child_sa))

\* check_for_generic_label
check_for_generic_label(t) == generic_label_only(t)

\* build_i_multi_ke
build_i_multi_ke(t, x, m, e) ==
    Let([m EXCEPT !.exchange = "IKE_FOLLOWUP_KE"], LAMBDA m1 :
        Let([t EXCEPT !.ke = CreateKe(t, x, CurrentMethod(t))], LAMBDA t1 :
        Let(build_payloads_multi_ke(t1, m1, e.pld_ok), LAMBDA r :
        IF IsNull(t1.ke) THEN [t |-> t1, x |-> x, m |-> m1, st |-> "FAILED"]
        ELSE IF Len(t1.link) = 0 THEN [t |-> t1, x |-> x, m |-> m1, st |-> "FAILED"]
        ELSE IF ~r.ok THEN [t |-> t1, x |-> x, m |-> r.m, st |-> "FAILED"]
        ELSE [t |-> t1, x |-> x, m |-> r.m, st |-> "NEED_MORE"])))

\* the result of a build or process handler
Result(t, x, m, st) == [t |-> t, x |-> x, m |-> m, st |-> st]

\* build_i after the switch on the exchange type
BuildRequest(t, x, m, e, no_ke) ==
    Let(Deref(t.config), LAMBDA cfg :
        Let(     IF ~generic_label_only(t) /\ t.child.label = 0
                 THEN cfg.label ELSE t.child.label, LAMBDA label :
        Let(     [t.child EXCEPT !.label = label,
                                 !.if_id_in_def = x.if_id_in,
                                 !.if_id_out_def = x.if_id_out,
                                 !.encap = x.nat_here \/ x.nat_there], LAMBDA child :
        Let(  [t EXCEPT !.tsi = Ptr(t.packet_tsi \o CfgGetTs(cfg, x.me)),
                        !.tsr = Ptr(t.packet_tsr \o CfgGetTs(cfg, x.other)),
                        !.child = child,
                        !.proposals = Ptr(CfgGetProposals(cfg, no_ke)),
                        !.mode = cfg.mode,
                        !.child_sa = Ptr(child_sa_create(cfg, child))], LAMBDA t1 :
        Let([x EXCEPT !.created = @ + 1], LAMBDA x1 :
        Let(allocate_spi(t1, e.spi), LAMBDA a :
        Let(  IF ~no_ke /\ ~t.retry /\ a.t.ke_method = KE_NONE
              THEN [a.t EXCEPT !.ke_method = CfgGetAlgorithm(cfg, KEY_EXCHANGE_METHOD)]
              ELSE a.t, LAMBDA t2 :
        Let(update_and_check_proposals(t2), LAMBDA u :
        Let(  IF u.t.ke_method # KE_NONE
              THEN [u.t EXCEPT !.ke = CreateKe(t, x, u.t.ke_method)]
              ELSE u.t, LAMBDA t3 :
        Let( IF cfg.ipcomp
             THEN add_ipcomp_notify(t3, m, IPCOMP_DEFLATE, e.cpi)
             ELSE [t |-> t3, m |-> m], LAMBDA c :
        Let(build_payloads(c.t, x, c.m, e.pld_ok), LAMBDA b :
        IF /\ ~t.rekey /\ m.exchange = "CREATE_CHILD_SA"
           /\ (check_for_generic_label(t1) \/ check_for_duplicate(t1, x1))
        THEN Result(t1, x1, [m EXCEPT !.exchange = "UNDEFINED"], "SUCCESS")
        ELSE IF ~a.ok THEN Result(a.t, x1, m, "FAILED")
        ELSE IF ~u.ok THEN Result(u.t, x1, m, "FAILED")
        ELSE IF t3.ke_method # KE_NONE /\ IsNull(t3.ke)
             THEN Result(t3, x1, m, "FAILED")
        ELSE IF ~b.ok THEN Result(c.t, x1, b.m, "FAILED")
        ELSE Result([c.t EXCEPT !.tsi = NULL, !.tsr = NULL, !.proposals = NULL],
                    x1, b.m, "NEED_MORE"))))))))))))

\* build_i; e.nonce_ok, e.nonce: what the nonce generator returns
build_i(t, x, m, e) ==
    CASE m.exchange = "CREATE_CHILD_SA" ->
           IF ~e.nonce_ok
           THEN Result(t, x, [m EXCEPT !.exchange = "UNDEFINED"], "SUCCESS")
           ELSE BuildRequest([t EXCEPT !.my_nonce = e.nonce], x, m, e, FALSE)
      [] m.exchange = "IKE_AUTH" ->
           Let(defer_child_sa(t, x), LAMBDA d :
               IF d = "DESTROY_ME" THEN Result(t, x, m, "DESTROY_ME")
               ELSE IF d = "NEED_MORE"
                    THEN Result([t EXCEPT !.my_nonce = <<>>], x, m, "NEED_MORE")
               ELSE BuildRequest([t EXCEPT !.build = "return_need_more"],
                                 x, m, e, TRUE))
      [] OTHER -> Result(t, x, m, "NEED_MORE")

\* a responder that does not compare the token
process_link_any(t, m) ==
    IF t.initiator /\ HasNotify(m, ADDITIONAL_KEY_EXCHANGE)
    THEN [t EXCEPT !.link = GetNotify(m, ADDITIONAL_KEY_EXCHANGE).data]
    ELSE IF t.initiator THEN [t EXCEPT !.link = <<>>]
    ELSE t

\* process_link
process_link(t, m) ==
    IF HasNotify(m, ADDITIONAL_KEY_EXCHANGE)
    THEN Let(GetNotify(m, ADDITIONAL_KEY_EXCHANGE).data, LAMBDA link :
             IF t.initiator THEN [t EXCEPT !.link = link]
             ELSE IF t.link # link THEN [t EXCEPT !.link = <<>>]
             ELSE t)
    ELSE [t EXCEPT !.link = <<>>]

\* process_payloads_multi_ke: the first KE payload of the message, if any
process_payloads_multi_ke(t, x, m) ==
    Let(      IF Len(m.ke) > 0
              THEN process_ke_payload(t, m.ke[1], m.ke[1].method \in x.supported)
              ELSE [t EXCEPT !.ke_failed = TRUE], LAMBDA t1 :
        process_link(t1, m))

\* process_r_multi_ke
process_r_multi_ke(t, x, m) ==
    IF m.exchange = "IKE_FOLLOWUP_KE"
    THEN Result(process_payloads_multi_ke(t, x, m), x, m, "NEED_MORE")
    ELSE Result(t, x, m, "NEED_MORE")

\* get_nonce
get_nonce(m, old) == IF IsNull(m.nonce) THEN old ELSE Deref(m.nonce)

\* process_r
process_r(t, x, m) ==
    CASE m.exchange = "CREATE_CHILD_SA" ->
           Result(process_payloads([t EXCEPT !.other_nonce = get_nonce(m, @)], x, m),
                  x, m, "NEED_MORE")
      [] m.exchange = "IKE_AUTH" ->
           Result(process_payloads([t EXCEPT !.process = "return_need_more"], x, m),
                  x, m, "NEED_MORE")
      [] OTHER -> Result(t, x, m, "NEED_MORE")

\* schedules the job whatever the exchange type
handle_child_sa_failure_any_exchange(t, x, m) ==
    IF t.aborted THEN x
    ELSE IF x.close_ike_on_child_failure
         THEN [x EXCEPT !.delete_jobs = @ + 1]
         ELSE [x EXCEPT !.alerts = @ + 1]

\* handle_child_sa_failure
handle_child_sa_failure(t, x, m) ==
    IF t.aborted THEN x
    ELSE IF m.exchange = "IKE_AUTH" /\ x.close_ike_on_child_failure
         THEN [x EXCEPT !.delete_jobs = @ + 1]
         ELSE [x EXCEPT !.alerts = @ + 1]

\* select_child_cfg; found: what peer_cfg_t.select_child_cfg returns for the
\* received selectors and labels
select_child_cfg(t, x, found) ==
    IF ~IsNull(t.tsi) /\ ~IsNull(t.tsr) THEN found ELSE NULL

\* handle_childless
handle_childless(t, x) ==
    IF IsNull(t.proposals) /\ IsNull(t.tsi) /\ IsNull(t.tsr)
    THEN IF x.childless = "NEVER" THEN "INVALID_STATE" ELSE "SUCCESS"
    ELSE IF x.childless = "FORCE" THEN "INVALID_STATE" ELSE "NOT_SUPPORTED"

\* child_cfg_t.select_label for one proposed label (0: none)
CfgSelectLabel(cfg, l) ==
    IF cfg.label = 0 THEN [ok |-> l = 0, label |-> 0]
    ELSE [ok |-> l = cfg.label \/ (l # 0 /\ cfg.label_mode = "SELINUX"), label |-> l]

\* compares the label of TSi with the label the task has only
select_label_tsi(t) ==
    Let(CfgSelectLabel(Deref(t.config), t.labels_i), LAMBDA li :
        Let(CfgSelectLabel(Deref(t.config), t.labels_r), LAMBDA lr :
        IF ~li.ok \/ ~lr.ok THEN [t |-> t, ok |-> FALSE]
        ELSE IF li.label # 0
             THEN IF t.child.label = 0
                  THEN [t |-> [t EXCEPT !.child.label = li.label], ok |-> TRUE]
                  ELSE IF t.child.label # li.label THEN [t |-> t, ok |-> FALSE]
                  ELSE [t |-> t, ok |-> TRUE]
             ELSE [t |-> t, ok |-> TRUE]))

\* select_label
select_label(t) ==
    Let(CfgSelectLabel(Deref(t.config), t.labels_i), LAMBDA li :
        Let(CfgSelectLabel(Deref(t.config), t.labels_r), LAMBDA lr :
        IF ~li.ok \/ ~lr.ok THEN [t |-> t, ok |-> FALSE]
        ELSE IF li.label # 0
             THEN IF li.label # lr.label THEN [t |-> t, ok |-> FALSE]
                  ELSE IF t.child.label = 0
                       THEN [t |-> [t EXCEPT !.child.label = li.label], ok |-> TRUE]
                  ELSE IF t.child.label # li.label THEN [t |-> t, ok |-> FALSE]
                  ELSE [t |-> t, ok |-> TRUE]
             ELSE [t |-> t, ok |-> TRUE]))

\* sends the method in the byte order of a little-endian host
check_ke_method_r_host_order(t, m) ==
    Let(check_ke_method(t), LAMBDA c :
        IF ~c.ok
        THEN [t |-> c.t,
              m |-> AddNotify(m, INVALID_KE_PAYLOAD, <<c.req % 256, (c.req \div 256) % 256>>),
              ok |-> FALSE]
        ELSE IF c.t.ke_method # KE_NONE /\ IsNull(c.t.ke)
             THEN [t |-> c.t, m |-> AddNotify(m, NO_PROPOSAL_CHOSEN, <<>>), ok |-> FALSE]
        ELSE [t |-> c.t, m |-> m, ok |-> TRUE])

\* check_ke_method_r
check_ke_method_r(t, m) ==
    Let(check_ke_method(t), LAMBDA c :
        IF ~c.ok
        THEN [t |-> c.t, m |-> AddNotify(m, INVALID_KE_PAYLOAD, Htons16(c.req)),
              ok |-> FALSE]
        ELSE IF c.t.ke_method # KE_NONE /\ IsNull(c.t.ke)
             THEN [t |-> c.t, m |-> AddNotify(m, NO_PROPOSAL_CHOSEN, <<>>), ok |-> FALSE]
        ELSE [t |-> c.t, m |-> m, ok |-> TRUE])

\* key_exchange_done_and_install_r: done TRUE once the task is finished
key_exchange_done_and_install_r(t, x, m, e) ==
    Let(key_exchange_done(t), LAMBDA k :
        Let(  IF k.all THEN [k.t EXCEPT !.link = <<>>]
              ELSE IF Len(k.t.link) = 0 THEN [k.t EXCEPT !.link = <<LINK_INITIAL>>]
              ELSE k.t, LAMBDA t1 :
        Let(build_payloads(t1, x, m, e.pld_ok), LAMBDA b :
        Let(install_child_sa(t1, x, e), LAMBDA i :
        IF ~b.ok
        THEN [t |-> t1, x |-> handle_child_sa_failure(t1, x, m),
              m |-> AddNotify(b.m, NO_PROPOSAL_CHOSEN, <<>>), done |-> TRUE]
        ELSE IF ~k.all THEN [t |-> t1, x |-> x, m |-> b.m, done |-> FALSE]
        ELSE IF i.st = "SUCCESS"
             THEN [t |-> i.t,
                   x |-> IF ~t.rekey THEN [i.x EXCEPT !.updown = @ + 1] ELSE i.x,
                   m |-> b.m, done |-> TRUE]
        ELSE IF i.st = "NOT_FOUND"
             THEN [t |-> i.t, x |-> handle_child_sa_failure(i.t, i.x, m),
                   m |-> AddNotify(b.m, TS_UNACCEPTABLE, <<>>), done |-> TRUE]
        ELSE [t |-> i.t, x |-> handle_child_sa_failure(i.t, i.x, m),
              m |-> AddNotify(b.m, NO_PROPOSAL_CHOSEN, <<>>), done |-> TRUE]))))

\* fails the task with the notify
FailTask(t, x, m, type) ==
    Result(t, handle_child_sa_failure(t, x, m), AddNotify(m, type, <<>>), "FAILED")

\* a responder failure: the notify, handle_child_sa_failure, SUCCESS
FailR(t, x, m, type) ==
    Result(t, handle_child_sa_failure(t, x, m), AddNotify(m, type, <<>>), "SUCCESS")

\* build_r_multi_ke
build_r_multi_ke(t, x, m, e) ==
    IF IsNull(t.ke) THEN FailR(t, x, m, INVALID_SYNTAX)
    ELSE IF t.ke_failed THEN FailR(t, x, m, NO_PROPOSAL_CHOSEN)
    ELSE IF Len(t.link) = 0 THEN FailR(t, x, m, STATE_NOT_FOUND)
    ELSE Let(key_exchange_done_and_install_r(t, x, m, e), LAMBDA k :
             Result(k.t, k.x, k.m, IF k.done THEN "SUCCESS" ELSE "NEED_MORE"))

\* build_r after the switch on the exchange type; e.found: the configuration
\* peer_cfg_t.select_child_cfg returns
BuildResponse(t, x, m, e, no_ke) ==
    Let(      IF IsNull(t.config)
              THEN [t EXCEPT !.config = select_child_cfg(t, x, e.found)] ELSE t, LAMBDA t1 :
        Let(       \E i \in 1..Len(m.notifies) :
                       m.notifies[i].type \in {INTERNAL_ADDRESS_FAILURE,
                                               FAILED_CP_REQUIRED}, LAMBDA cfgfail :
        Let(select_proposal(t1, x, no_ke), LAMBDA s :
        Let(check_ke_method_r(s.t, m), LAMBDA c :
        Let(determine_key_exchanges(c.t), LAMBDA t2 :
        Let(select_label(t2), LAMBDA l :
        Let(     [l.t.child EXCEPT !.if_id_in_def = x.if_id_in,
                                   !.if_id_out_def = x.if_id_out,
                                   !.encap = x.nat_here \/ x.nat_there], LAMBDA child :
        Let(  [l.t EXCEPT !.child = child,
                          !.child_sa = Ptr(child_sa_create(Deref(t1.config), child)),
                          !.other_spi = Deref(l.t.proposal).spi], LAMBDA t3 :
        Let(allocate_spi(t3, e.spi), LAMBDA a :
        Let([a.t EXCEPT !.proposal = Ptr(SetSpi(Deref(@), a.t.my_spi))], LAMBDA t4 :
        Let( IF t4.ipcomp_received # IPCOMP_NONE /\ Deref(t4.config).ipcomp
             THEN add_ipcomp_notify(t4, m, t4.ipcomp_received, e.cpi)
             ELSE [t |-> t4, m |-> m], LAMBDA p :
        Let([x EXCEPT !.created = @ + 1], LAMBDA xc :
        Let(narrow_and_check_ts(p.t, xc, e), LAMBDA n :
        Let(key_exchange_done_and_install_r(n.t, xc, p.m, e), LAMBDA k :
        IF x.state = "REKEYING" \/ x.state = "DELETING"
        THEN Result(t, x, AddNotify(m, TEMPORARY_FAILURE, <<>>), "SUCCESS")
        ELSE IF IsNull(t1.config) \/ IsNull(t1.tsi) \/ IsNull(t1.tsr)
             THEN FailR(t1, x, m, TS_UNACCEPTABLE)
        ELSE IF cfgfail
             THEN Result(t1, handle_child_sa_failure(t1, x, m), m, "SUCCESS")
        ELSE IF ~s.ok THEN FailR(s.t, x, m, NO_PROPOSAL_CHOSEN)
        ELSE IF ~c.ok THEN Result(c.t, x, c.m, "SUCCESS")
        ELSE IF c.t.ke_failed THEN FailR(c.t, x, m, NO_PROPOSAL_CHOSEN)
        ELSE IF ~l.ok THEN FailR(l.t, x, m, TS_UNACCEPTABLE)
        ELSE IF ~a.ok THEN FailR(a.t, xc, m, NO_PROPOSAL_CHOSEN)
        ELSE IF n.st = "NOT_FOUND" THEN FailR(n.t, xc, p.m, TS_UNACCEPTABLE)
        ELSE IF n.st # "SUCCESS" THEN FailR(n.t, xc, p.m, NO_PROPOSAL_CHOSEN)
        ELSE IF ~k.done
             THEN Result([k.t EXCEPT !.build = "build_r_multi_ke",
                                     !.process = "process_r_multi_ke"],
                         k.x, k.m, "NEED_MORE")
        ELSE Result(k.t, k.x, k.m, "SUCCESS")))))))))))))))

\* build_r
build_r(t, x, m, e) ==
    CASE m.exchange = "CREATE_CHILD_SA" ->
           IF ~e.nonce_ok
           THEN Result(t, x, AddNotify(m, NO_PROPOSAL_CHOSEN, <<>>), "SUCCESS")
           ELSE BuildResponse([t EXCEPT !.my_nonce = e.nonce], x, m, e, FALSE)
      [] m.exchange = "IKE_AUTH" ->
           IF ~x.authenticated THEN Result(t, x, m, "NEED_MORE")
           ELSE IF x.redirected THEN Result(t, x, m, "SUCCESS")
           ELSE Let(handle_childless(t, x), LAMBDA h :
                    IF h = "SUCCESS" THEN Result(t, x, m, "SUCCESS")
                    ELSE IF h = "INVALID_STATE"
                         THEN Result(t, x, AddNotify(m, INVALID_SYNTAX, <<>>), "FAILED")
                    ELSE BuildResponse(t, x, m, e, TRUE))
      [] OTHER -> Result(t, x, m, "NEED_MORE")

\* an INFORMATIONAL message without a DELETE payload
build_i_delete_empty(t, x, m) ==
    Result(t, x, [m EXCEPT !.exchange = "INFORMATIONAL"], "SUCCESS")

\* build_i_delete
build_i_delete(t, x, m) ==
    Let([m EXCEPT !.exchange = "INFORMATIONAL"], LAMBDA m1 :
        IF t.my_spi # 0 /\ t.proto # "NONE"
        THEN Result(t, x, [m1 EXCEPT !.del = Append(@, [protocol |-> t.proto,
                                                        spi |-> t.my_spi])],
                    "SUCCESS")
        ELSE Result(t, x, m1, "SUCCESS"))

\* delete_failed_sa
delete_failed_sa(t, x) ==
    IF t.my_spi # 0 /\ t.proto # "NONE"
    THEN [t |-> [t EXCEPT !.build = "build_i_delete", !.child_sa = NULL],
          x |-> DestroyChild(t, x), st |-> "NEED_MORE"]
    ELSE [t |-> t, x |-> x, st |-> "SUCCESS"]

\* raises child_updown for a rekeying as well
key_exchange_done_and_install_i_updown(t, x, m, e) ==
    Let(key_exchange_done(t), LAMBDA k :
        Let(install_child_sa(k.t, x, e), LAMBDA i :
        Let(delete_failed_sa(i.t, handle_child_sa_failure(i.t, i.x, m)), LAMBDA d :
        IF ~k.all THEN Result(k.t, x, m, "NEED_MORE")
        ELSE IF i.st = "SUCCESS"
             THEN Result(i.t, [i.x EXCEPT !.updown = @ + 1], m, "SUCCESS")
        ELSE Result(d.t, d.x, m, d.st))))

\* key_exchange_done_and_install_i
key_exchange_done_and_install_i(t, x, m, e) ==
    Let(key_exchange_done(t), LAMBDA k :
        Let(install_child_sa(k.t, x, e), LAMBDA i :
        Let(delete_failed_sa(i.t, handle_child_sa_failure(i.t, i.x, m)), LAMBDA d :
        IF ~k.all THEN Result(k.t, x, m, "NEED_MORE")
        ELSE IF i.st = "SUCCESS"
             THEN Result(i.t, IF ~t.rekey THEN [i.x EXCEPT !.updown = @ + 1] ELSE i.x,
                         m, "SUCCESS")
        ELSE Result(d.t, d.x, m, d.st))))

\* kernel_interface_t.ref_reqid returns SUCCESS: reqids are counted
\* references, one that is held can be taken again; fresh: what the kernel
\* says of one this IKE_SA holds no reference of
ref_reqid(x, reqid, fresh) == x.reqid_refs[reqid] > 0 \/ fresh

\* keeps the reference of the reqid it replaces
use_reqid_keep(t, x, reqid, fresh) ==
    Let(IF reqid # 0 THEN [x EXCEPT !.reqid_refs[reqid] = @ + 1] ELSE x, LAMBDA refd :
        IF reqid = 0 \/ ref_reqid(x, reqid, fresh)
        THEN [t |-> [t EXCEPT !.child.reqid = reqid], x |-> refd]
        ELSE [t |-> t, x |-> x])

\* use_reqid
use_reqid(t, x, reqid, fresh) ==
    Let(t.child.reqid, LAMBDA existing_reqid :
        Let(IF reqid # 0 THEN [x EXCEPT !.reqid_refs[reqid] = @ + 1] ELSE x, LAMBDA refd :
        IF reqid = 0 \/ ref_reqid(x, reqid, fresh)
        THEN [t |-> [t EXCEPT !.child.reqid = reqid],
              x |-> IF existing_reqid # 0
                    THEN [refd EXCEPT !.reqid_refs[existing_reqid] = @ - 1]
                    ELSE refd]
        ELSE [t |-> t, x |-> x]))

\* takes the inbound mark for the outbound one
use_marks_swapped(t, in, out) == [t EXCEPT !.child.mark_in = out, !.child.mark_out = in]

\* use_marks
use_marks(t, in, out) == [t EXCEPT !.child.mark_in = in, !.child.mark_out = out]

\* use_if_ids
use_if_ids(t, in, out) == [t EXCEPT !.child.if_id_in = in, !.child.if_id_out = out]

\* use_label
use_label(t, label) == [t EXCEPT !.child.label = label]

\* queues nothing
schedule_nothing(t, x) == x

\* schedule_delayed_retry: a new task for the same configuration is queued
\* with a delay
schedule_delayed_retry(t, x) ==
    Let(child_create_create(t.config, FALSE, t.packet_tsi, t.packet_tsr), LAMBDA task :
        Let(use_reqid(task, x, t.child.reqid, FALSE), LAMBDA u :
        [u.x EXCEPT !.retries = @ + 1,
                    !.queued = Append(@,
                        use_label(use_if_ids(use_marks(u.t, t.child.mark_in,
                                                       t.child.mark_out),
                                             t.child.if_id_in, t.child.if_id_out),
                                  t.child.label))]))

\* goes on with the installation of an aborted task
process_i_multi_ke_unaborted(t, x, m, e) ==
    IF HasNotify(m, TEMPORARY_FAILURE)
    THEN Result(t, IF ~t.rekey /\ ~t.aborted THEN schedule_delayed_retry(t, x) ELSE x,
                m, "SUCCESS")
    ELSE Let(process_payloads_multi_ke(t, x, m), LAMBDA t1 :
             Let(delete_failed_sa(t1, handle_child_sa_failure(t1, x, m)), LAMBDA d :
             IF t1.ke_failed THEN Result(d.t, d.x, m, d.st)
             ELSE key_exchange_done_and_install_i(t1, x, m, e)))

\* process_i_multi_ke
process_i_multi_ke(t, x, m, e) ==
    IF HasNotify(m, TEMPORARY_FAILURE)
    THEN Result(t, IF ~t.rekey /\ ~t.aborted THEN schedule_delayed_retry(t, x) ELSE x,
                m, "SUCCESS")
    ELSE Let(process_payloads_multi_ke(t, x, m), LAMBDA t1 :
             Let(delete_failed_sa(t1, handle_child_sa_failure(t1, x, m)), LAMBDA d :
             IF t1.ke_failed \/ t1.aborted THEN Result(d.t, d.x, m, d.st)
             ELSE key_exchange_done_and_install_i(t1, x, m, e)))

\* migrate
migrate(t, x) ==
    Let(      clear_key_exchanges(
                  [t EXCEPT !.my_nonce = <<>>, !.other_nonce = <<>>,
                            !.link = <<>>, !.ke_failed = FALSE]), LAMBDA t1 :
        [t |-> [t1 EXCEPT !.ke_method = IF ~t.rekey /\ ~t.retry THEN KE_NONE ELSE @,
                          !.proposal = NULL, !.proposals = NULL,
                          !.tsi = NULL, !.tsr = NULL,
                          !.labels_i = 0, !.labels_r = 0,
                          !.ke = NULL, !.child_sa = NULL,
                          !.mode = "TUNNEL", !.ipcomp = IPCOMP_NONE,
                          !.ipcomp_received = IPCOMP_NONE, !.other_cpi = 0,
                          !.established = FALSE,
                          !.build = "build_i", !.process = "process_i"],
         x |-> DestroyChild(t, x)])

ChildErrors ==
    {NO_PROPOSAL_CHOSEN, SINGLE_PAIR_REQUIRED, NO_ADDITIONAL_SAS,
     INTERNAL_ADDRESS_FAILURE, FAILED_CP_REQUIRED, TS_UNACCEPTABLE,
     INVALID_SELECTORS}

\* leaves the loop on an error notify whatever the exchange type
RECURSIVE ScanAnyExchange(_, _)
ScanAnyExchange(m, i) ==
    IF i > Len(m.notifies) THEN 0
    ELSE IF m.notifies[i].type <= LAST_ERROR_NOTIFY
            \/ m.notifies[i].type = TEMPORARY_FAILURE
         THEN i
         ELSE ScanAnyExchange(m, i + 1)

\* the notify the scan of process_i acts on: the index of the first notify
\* that leaves the loop, 0 if none does
RECURSIVE ScanNotifies(_, _)
ScanNotifies(m, i) ==
    IF i > Len(m.notifies) THEN 0
    ELSE Let(m.notifies[i].type, LAMBDA type :
             IF \/ type \in ChildErrors
                \/ type = TEMPORARY_FAILURE
                \/ type = INVALID_KE_PAYLOAD
                \/ (m.exchange = "CREATE_CHILD_SA" /\ type <= LAST_ERROR_NOTIFY)
             THEN i
             ELSE ScanNotifies(m, i + 1))

\* retries whenever asked to
RetryAgain(t, x, m, n) ==
    Let(     migrate([t EXCEPT !.retry = TRUE,
                               !.ke_method = IF Len(n.data) = 2
                                             THEN Untoh16(n.data) ELSE KE_NONE],
                     x), LAMBDA g :
        IF t.aborted THEN Result(t, x, m, "SUCCESS")
        ELSE Result(g.t, g.x, m, "NEED_MORE"))

\* process_i: the case of the scan for an INVALID_KE_PAYLOAD notify
InvalidKePayload(t, x, m, n) ==
    Let(IF Len(n.data) = 2 THEN Untoh16(n.data) ELSE KE_NONE, LAMBDA alg :
        Let( migrate([t EXCEPT !.retry = TRUE, !.ke_method = alg,
                               !.child_sa = IF IsNull(@) THEN @
                                            ELSE Ptr([Deref(@) EXCEPT
                                                         !.state = "RETRYING"])],
                     x), LAMBDA g :
        IF t.aborted THEN Result(t, x, m, "SUCCESS")
        ELSE IF t.retry
             THEN Result(t, handle_child_sa_failure(t, x, m), m, "SUCCESS")
        ELSE Result(g.t, g.x, m, "NEED_MORE")))

\* process_i after the scan of the notifies
ProcessResponse(t, x, m, e, no_ke) ==
    Let(process_payloads(t, x, m), LAMBDA t1 :
        Let(select_proposal(t1, x, no_ke), LAMBDA s :
        Let(  [s.t EXCEPT !.other_spi = Deref(s.t.proposal).spi,
                          !.proposal = Ptr(SetSpi(Deref(@), t.my_spi))], LAMBDA t2 :
        Let(  IF t2.ipcomp # IPCOMP_NONE /\ t2.ipcomp_received = IPCOMP_NONE
              THEN [t2 EXCEPT !.ipcomp = IPCOMP_NONE] ELSE t2, LAMBDA t3 :
        Let(check_ke_method(t3), LAMBDA c :
        Let(determine_key_exchanges(c.t), LAMBDA t4 :
        Let(select_label(t4), LAMBDA l :
        Let(narrow_and_check_ts(l.t, x, e), LAMBDA n :
        Let(key_exchange_done_and_install_i(n.t, x, m, e), LAMBDA k :
    LET fail(tt, xx) == Let(delete_failed_sa(tt, handle_child_sa_failure(tt, xx, m)), LAMBDA d :
                            Result(d.t, d.x, m, d.st)) IN
        IF ~s.ok THEN fail(s.t, x)
        ELSE IF t2.aborted
             THEN Let(delete_failed_sa(t2, x), LAMBDA d :    Result(d.t, d.x, m, d.st))
        ELSE IF t2.ipcomp = IPCOMP_NONE /\ t2.ipcomp_received # IPCOMP_NONE
             THEN fail(t2, x)
        ELSE IF t3.ipcomp # IPCOMP_NONE /\ t3.ipcomp # t3.ipcomp_received
             THEN fail(t3, x)
        ELSE IF ~c.ok THEN fail(c.t, x)
        ELSE IF c.t.ke_failed THEN fail(c.t, x)
        ELSE IF ~l.ok THEN fail(l.t, x)
        ELSE IF n.st # "SUCCESS" THEN fail(n.t, x)
        ELSE IF k.st = "NEED_MORE"
             THEN IF k.t.build = "build_i"
                  THEN Result([process_link(k.t, m) EXCEPT
                                   !.build = "build_i_multi_ke",
                                   !.process = "process_i_multi_ke"],
                              k.x, m, "NEED_MORE")
                  ELSE Result(k.t, k.x, m, "NEED_MORE")
        ELSE Result(k.t, k.x, m, "SUCCESS"))))))))))

\* process_i after the switch on the exchange type
ScanAndProcess(t, x, m, e, no_ke) ==
    Let(ScanNotifies(m, 1), LAMBDA i :
        Let(m.notifies[i].type, LAMBDA type :
        IF i = 0 THEN ProcessResponse(t, x, m, e, no_ke)
        ELSE IF type \in ChildErrors
             THEN Result(t, handle_child_sa_failure(t, x, m), m, "SUCCESS")
        ELSE IF type = TEMPORARY_FAILURE
             THEN Result(t, IF ~t.rekey /\ ~t.aborted
                            THEN schedule_delayed_retry(t, x) ELSE x,
                         m, "SUCCESS")
        ELSE IF type = INVALID_KE_PAYLOAD
             THEN InvalidKePayload(t, x, m, m.notifies[i])
        ELSE Result(t, x, m, "SUCCESS")))

\* process_i
process_i(t, x, m, e) ==
    CASE m.exchange = "CREATE_CHILD_SA" ->
           ScanAndProcess([t EXCEPT !.other_nonce = get_nonce(m, @)], x, m, e, FALSE)
      [] m.exchange = "IKE_AUTH" ->
           IF ~x.authenticated THEN Result(t, x, m, "NEED_MORE")
           ELSE IF defer_child_sa(t, x) = "NEED_MORE"
                THEN Result([t EXCEPT !.other_nonce = <<>>], x, m, "NEED_MORE")
           ELSE ScanAndProcess(t, x, m, e, TRUE)
      [] OTHER -> Result(t, x, m, "NEED_MORE")

\* use_ke_method
use_ke_method(t, ke_method) == [t EXCEPT !.ke_method = ke_method]

\* memcmp() < 0 over the first n bytes
RECURSIVE MemLess(_, _, _, _)
MemLess(a, b, i, n) ==
    IF i > n THEN FALSE
    ELSE IF a[i] # b[i] THEN a[i] < b[i]
    ELSE MemLess(a, b, i + 1, n)

get_lower_nonce_mine(t) ==
    IF ~MemLess(t.other_nonce, t.my_nonce, 1, Min(Len(t.my_nonce), Len(t.other_nonce)))
    THEN t.my_nonce ELSE t.other_nonce

\* get_lower_nonce
get_lower_nonce(t) ==
    IF MemLess(t.my_nonce, t.other_nonce, 1, Min(Len(t.my_nonce), Len(t.other_nonce)))
    THEN t.my_nonce ELSE t.other_nonce

\* abort_
abort_(t) == [t EXCEPT !.aborted = TRUE]

\* destroys the CHILD_SA whether the IKE_SA has it or not
destroy_established(t, x) ==
    Let(DestroyChild(t, x), LAMBDA x1 :
        IF t.child.reqid # 0
        THEN [x1 EXCEPT !.reqid_refs[t.child.reqid] = @ - 1]
        ELSE x1)

\* destroy
destroy(t, x) ==
    Let(IF ~t.established THEN DestroyChild(t, x) ELSE x, LAMBDA x1 :
        IF t.child.reqid # 0
        THEN [x1 EXCEPT !.reqid_refs[t.child.reqid] = @ - 1]
        ELSE x1)

(***************************************************************************)
(* What the collaborators of the task return in one call of a handler.     *)
(***************************************************************************)
EnvGood ==
    [nonce_ok |-> TRUE, nonce |-> <<0, 1>>, found |-> NULL,
     spi |-> 1, cpi |-> 1, pld_ok |-> TRUE,
     narrow_my |-> "keep", narrow_other |-> "keep", post_empty |-> FALSE,
     derive_ok |-> TRUE, st_in |-> "SUCCESS", st_out |-> "SUCCESS",
     st_pol |-> "SUCCESS"]

\* a call in which a collaborator fails
IsFault(e) == e # [EnvGood EXCEPT !.spi = e.spi] \/ e.spi = 0

\* the calls of a build handler of the initiator
EnvsBuildI ==
    {[EnvGood EXCEPT !.spi = s] : s \in 0..MaxSpi}
    \cup {[EnvGood EXCEPT !.nonce_ok = FALSE], [EnvGood EXCEPT !.cpi = 0],
          [EnvGood EXCEPT !.pld_ok = FALSE]}

\* the calls of narrow_and_check_ts and install_child_sa
EnvsInstall ==
    {EnvGood,
     [EnvGood EXCEPT !.narrow_my = "none"], [EnvGood EXCEPT !.narrow_other = "head"],
     [EnvGood EXCEPT !.narrow_my = "host"],
     [EnvGood EXCEPT !.post_empty = TRUE], [EnvGood EXCEPT !.derive_ok = FALSE],
     [EnvGood EXCEPT !.st_in = "FAILED"], [EnvGood EXCEPT !.st_out = "FAILED"],
     [EnvGood EXCEPT !.st_in = "FAILED", !.st_out = "FAILED"],
     [EnvGood EXCEPT !.st_pol = "FAILED"]}

\* the calls of a build handler of the responder
EnvsBuildR ==
    EnvsInstall
    \cup {[EnvGood EXCEPT !.spi = 0], [EnvGood EXCEPT !.nonce_ok = FALSE],
          [EnvGood EXCEPT !.cpi = 0], [EnvGood EXCEPT !.pld_ok = FALSE]}

(***************************************************************************)
(* Messages of a peer that is not this implementation.                     *)
(***************************************************************************)
ForgedProposals ==
    {Proposal(1, 2, tf) : tf \in
        {<<>>,
         KEY_EXCHANGE_METHOD :> <<1>>,
         KEY_EXCHANGE_METHOD :> <<2>>,
         ADDITIONAL_KEY_EXCHANGE_1 :> <<2>>,
         (KEY_EXCHANGE_METHOD :> <<1>>) @@ (ADDITIONAL_KEY_EXCHANGE_1 :> <<2>>),
         (KEY_EXCHANGE_METHOD :> <<1>>) @@ ((ADDITIONAL_KEY_EXCHANGE_1 + 2) :> <<2>>),
         (KEY_EXCHANGE_METHOD :> <<1>>) @@ (ADDITIONAL_KEY_EXCHANGE_1 :> <<2>>)
             @@ ((ADDITIONAL_KEY_EXCHANGE_1 + 2) :> <<2>>)}}

\* KE payloads; the last one carries a public value set_public_key rejects
ForgedKes(from) ==
    {<<>>, <<KePayload(1, from, TRUE)>>, <<KePayload(2, from, TRUE)>>}

ForgedKesMulti(from) == ForgedKes(from) \cup {<<KePayload(2, from, FALSE)>>}

ForgedLinks == {<<>>, <<LINK_INITIAL>>, <<LINK_INITIAL + 1>>}

ForgedErrors ==
    {Notify(INVALID_KE_PAYLOAD, Htons16(NumMethods)),
     Notify(INVALID_KE_PAYLOAD, <<>>), Notify(NO_PROPOSAL_CHOSEN, <<>>),
     Notify(TEMPORARY_FAILURE, <<>>), Notify(INVALID_SYNTAX, <<>>)}

WithLink(m, link) ==
    IF Len(link) = 0 THEN m ELSE AddNotify(m, ADDITIONAL_KEY_EXCHANGE, link)

\* responses to a request of the given exchange type
ForgedResponses(exchange) ==
    IF exchange = "IKE_FOLLOWUP_KE"
    THEN {WithLink([Message(exchange) EXCEPT !.ke = ke, !.notifies = ns], link) :
              ke \in ForgedKesMulti("r"), link \in ForgedLinks,
              ns \in {<<>>, <<Notify(TEMPORARY_FAILURE, <<>>)>>,
                      <<Notify(INVALID_KE_PAYLOAD, Htons16(1))>>}}
    ELSE {[Message(exchange) EXCEPT !.notifies = ns] :
              ns \in SeqsUpTo(ForgedErrors, MaxForgedNotifies) \ {<<>>}}
         \cup
         {WithLink([Message(exchange) EXCEPT
                        !.sa = Ptr(<<p>>), !.nonce = Ptr(<<1, 0>>), !.ke = ke,
                        !.tsi = Ptr(<<Ts(0, 0)>>), !.tsr = Ptr(<<Ts(0, 0)>>)],
                   link) :
              p \in ForgedProposals, ke \in ForgedKes("r"),
              link \in {<<>>, <<LINK_INITIAL>>}}

\* requests: the first one opens a CREATE_CHILD_SA exchange, the others
\* continue it
ForgedRequests(first) ==
    IF ~first
    THEN {WithLink([Message("IKE_FOLLOWUP_KE") EXCEPT !.ke = ke], link) :
              ke \in ForgedKesMulti("i"), link \in ForgedLinks}
    ELSE {[Message("CREATE_CHILD_SA") EXCEPT
               !.sa = Ptr([i \in 1..Len(c.proposals) |-> SetSpi(c.proposals[i], 1)]),
               !.nonce = Ptr(<<0, 1>>), !.ke = ke,
               !.tsi = Ptr(<<Ts(0, 0)>>), !.tsr = Ptr(<<Ts(0, 0)>>)] :
              c \in Configs, ke \in ForgedKes("i")}
         \cup {[Message("CREATE_CHILD_SA") EXCEPT
                    !.sa = Ptr(<<Proposal(1, 1, KEY_EXCHANGE_METHOD :> <<1>>)>>),
                    !.nonce = Ptr(<<0, 1>>), !.ke = <<KePayload(1, "i", TRUE)>>]}
         \cup {[Message("CREATE_CHILD_SA") EXCEPT
                    !.sa = Ptr(<<Proposal(1, 1, ADDITIONAL_KEY_EXCHANGE_1 :> <<2>>)>>),
                    !.nonce = Ptr(<<0, 1>>), !.ke = ke,
                    !.tsi = Ptr(<<Ts(0, 0)>>), !.tsr = Ptr(<<Ts(0, 0)>>)] :
                   ke \in ForgedKes("i")}
         \cup {[Message("CREATE_CHILD_SA") EXCEPT
                    !.sa = Ptr(<<Proposal(1, 1, KEY_EXCHANGE_METHOD :> <<1>>)>>),
                    !.nonce = Ptr(<<0, 1>>), !.ke = ke,
                    !.tsi = Ptr(<<Ts(0, 0)>>), !.tsr = Ptr(<<Ts(0, 0)>>),
                    !.label_i = 1, !.label_r = 1] :
                   ke \in ForgedKes("i") \ {<<>>}}

(***************************************************************************)
(* The two peers of one IKE_SA: the initiating task ti on hostI, the       *)
(* responding task tr on hostR, the message on the wire and the task       *)
(* managers' position (eng).  lower is what get_lower_nonce returned.      *)
(***************************************************************************)
VARIABLES ti, tr, hostI, hostR, wire, eng, lower

vars == <<ti, tr, hostI, hostR, wire, eng, lower>>

Wire(kind, m) == [kind |-> kind, m |-> m]

Engine(peer, exchange, rekey, cfg_r) ==
    [peer |-> peer,
     turn |-> IF peer = "forged_i" THEN "forge" ELSE "i_build",
     exchange |-> exchange, first |-> TRUE, rekey |-> rekey,
     cfg_r |-> cfg_r, i_st |-> "NONE", r_st |-> "NONE",
     i_handler |-> "none", r_handler |-> "none", r_active |-> exchange = "IKE_AUTH",
     faults |-> 0, forged |-> 0, migrations |-> 0, requests |-> 0]

\* the nonces of IKE_SA_INIT, which an IKE_AUTH exchange uses
WithInitNonces(t, exchange, mine, other) ==
    IF exchange = "IKE_AUTH"
    THEN [t EXCEPT !.my_nonce = mine, !.other_nonce = other] ELSE t

\* both peers are this implementation ("honest"), or the responder
\* ("forged_r") or the initiator ("forged_i") is another one
Init ==
    \E peer \in {"honest", "forged_r", "forged_i"},
       cfg \in Configs, cfg_r \in {NULL} \cup {Ptr(c) : c \in Configs},
       exchange \in {"IKE_AUTH", "CREATE_CHILD_SA"}, rekey \in BOOLEAN :
        /\ exchange = "IKE_AUTH" => ~rekey
        /\ peer = "forged_r" => cfg_r = NULL
        /\ peer = "forged_i" => cfg = CfgPfs /\ exchange = "CREATE_CHILD_SA"
        /\ ti = WithInitNonces(child_create_create(Ptr(cfg), rekey, NULL, NULL), exchange,
                               <<0, 1>>, <<1, 0>>)
        /\ tr = WithInitNonces(child_create_create(NULL, rekey, NULL, NULL), exchange,
                               <<1, 0>>, <<0, 1>>)
        /\ hostI = Host(1, 2)
        /\ hostR = Host(2, 1)
        /\ wire = Wire("none", Message("NONE"))
        /\ eng = Engine(peer, exchange, rekey, cfg_r)
        /\ lower = NULL

\* the build handler the initiating task has installed
BuildI(t, x, m, e) ==
    CASE t.build = "build_i" -> build_i(t, x, m, e)
      [] t.build = "build_i_multi_ke" -> build_i_multi_ke(t, x, m, e)
      [] t.build = "build_i_delete" -> build_i_delete(t, x, m)
      [] OTHER -> Result(t, x, m, "NEED_MORE")

\* the process handler the initiating task has installed
ProcessI(t, x, m, e) ==
    CASE t.process = "process_i" -> process_i(t, x, m, e)
      [] t.process = "process_i_multi_ke" -> process_i_multi_ke(t, x, m, e)
      [] OTHER -> Result(t, x, m, "NEED_MORE")

\* the build handler the responding task has installed
BuildR(t, x, m, e) ==
    CASE t.build = "build_r" -> build_r(t, x, m, e)
      [] t.build = "build_r_multi_ke" -> build_r_multi_ke(t, x, m, e)
      [] OTHER -> Result(t, x, m, "NEED_MORE")

\* the process handler the responding task has installed
ProcessR(t, x, m) ==
    CASE t.process = "process_r" -> process_r(t, x, m)
      [] t.process = "process_r_multi_ke" -> process_r_multi_ke(t, x, m)
      [] OTHER -> Result(t, x, m, "NEED_MORE")

\* the exchange type the task manager gives the next request
RequestExchange == IF eng.first THEN eng.exchange ELSE "CREATE_CHILD_SA"

\* at most MaxFaults failures in a run: calls that fail and IKE_SAs that are
\* lost and reestablished
MayUse(e) == IsFault(e) => eng.faults < MaxFaults
Faults(e) == IF IsFault(e) THEN eng.faults + 1 ELSE eng.faults

\* the initiating task manager builds a request
InitiatorBuild ==
    /\ eng.turn = "i_build"
    /\ \E e \in EnvsBuildI :
        Let(BuildI(ti, hostI, Message(RequestExchange), e), LAMBDA r :
            Let(r.m.exchange # "UNDEFINED" /\ r.st \in {"NEED_MORE", "SUCCESS"}, LAMBDA sent :
            Let(r.st # "NEED_MORE", LAMBDA over :
            /\ MayUse(e)
            /\ ti' = r.t
            /\ hostI' = IF over THEN destroy(r.t, r.x) ELSE r.x
            /\ wire' = IF sent THEN Wire("req", r.m) ELSE Wire("none", r.m)
            /\ eng' = [eng EXCEPT !.turn = IF over \/ ~sent THEN "done" ELSE "r_process",
                                  !.i_st = r.st, !.i_handler = ti.build,
                                  !.faults = Faults(e),
                                  !.requests = IF sent THEN @ + 1 ELSE @])))
    /\ UNCHANGED <<tr, hostR, lower>>

\* the responding task manager hands the request to its task, a new one for
\* a new exchange
ResponderProcess ==
    /\ eng.turn = "r_process"
    /\ eng.peer # "forged_r"
    /\ wire.m.exchange \in {"IKE_AUTH", "CREATE_CHILD_SA", "IKE_FOLLOWUP_KE"}
    /\ wire.m.exchange = "IKE_FOLLOWUP_KE" => eng.r_active
    /\ Let(      IF wire.m.exchange = "CREATE_CHILD_SA"
                 THEN child_create_create(NULL, eng.rekey, NULL, NULL) ELSE tr, LAMBDA t0 :
           Let(ProcessR(t0, hostR, wire.m), LAMBDA r :
           /\ tr' = r.t
           /\ hostR' = r.x
           /\ eng' = [eng EXCEPT !.turn = "r_build", !.r_active = TRUE,
                                 !.r_handler = t0.process]))
    /\ UNCHANGED <<ti, hostI, wire, lower>>

\* the responding task manager builds the response
ResponderBuild ==
    /\ eng.turn = "r_build"
    /\ \E e \in EnvsBuildR :
        Let(     BuildR(tr, hostR, Message(wire.m.exchange),
                        [e EXCEPT !.nonce = <<1, 0>>, !.found = eng.cfg_r]), LAMBDA r :
            Let(r.st # "NEED_MORE", LAMBDA over :
            /\ MayUse(e)
            /\ tr' = r.t
            /\ hostR' = IF over THEN destroy(r.t, r.x) ELSE r.x
            /\ wire' = Wire("resp", r.m)
            /\ eng' = [eng EXCEPT !.turn = IF eng.peer = "forged_i" THEN "forge"
                                           ELSE "i_process",
                                  !.r_st = r.st, !.r_handler = tr.build,
                                  !.faults = Faults(e),
                                  !.r_active = ~over]))
    /\ UNCHANGED <<ti, hostI, lower>>

\* the initiating task manager hands the response to its task
InitiatorProcess ==
    /\ eng.turn = "i_process"
    /\ \E e \in EnvsInstall :
        Let(ProcessI(ti, hostI, wire.m, e), LAMBDA r :
            Let(r.st # "NEED_MORE", LAMBDA over :
            /\ MayUse(e)
            /\ ti' = r.t
            /\ hostI' = IF over THEN destroy(r.t, r.x) ELSE r.x
            /\ eng' = [eng EXCEPT !.turn = IF over THEN "done" ELSE "i_build",
                                  !.first = FALSE, !.faults = Faults(e),
                                  !.i_st = r.st, !.i_handler = ti.process]))
    /\ UNCHANGED <<tr, hostR, wire, lower>>

\* a peer that is not this implementation answers the request
ForgedResponse ==
    /\ eng.turn = "r_process"
    /\ eng.peer = "forged_r"
    /\ \E m \in ForgedResponses(wire.m.exchange) :
        /\ wire' = Wire("resp", m)
        /\ eng' = [eng EXCEPT !.turn = "i_process", !.forged = @ + 1]
    /\ UNCHANGED <<ti, tr, hostI, hostR, lower>>

\* a peer that is not this implementation sends a request
ForgedRequest ==
    /\ eng.turn = "forge"
    /\ eng.forged < MaxForged
    /\ eng.forged > 0 => eng.r_active
    /\ \E m \in ForgedRequests(eng.forged = 0) :
        /\ wire' = Wire("req", m)
        /\ eng' = [eng EXCEPT !.turn = "r_process", !.forged = @ + 1]
    /\ UNCHANGED <<ti, tr, hostI, hostR, lower>>

\* another task aborts the initiating task while its request is under way
Abort ==
    /\ eng.turn = "r_process"
    /\ eng.peer # "forged_i"
    /\ ~ti.aborted
    /\ ti' = abort_(ti)
    /\ UNCHANGED <<tr, hostI, hostR, wire, eng, lower>>

\* the IKE_SA is reestablished while the request is under way: the task
\* manager migrates the initiating task to the new IKE_SA; the peer's old
\* IKE_SA goes with the task it has.  The IKE_SA_INIT exchange of the new
\* IKE_SA gives the task the nonces an IKE_AUTH exchange uses.
Migrate ==
    /\ eng.turn = "r_process"
    /\ eng.peer # "forged_i"
    /\ eng.migrations < MaxMigrate
    /\ eng.faults < MaxFaults
    /\ Let(migrate(ti, hostI), LAMBDA g :
           /\ ti' = WithInitNonces(g.t, RequestExchange, <<0, 1>>, <<1, 0>>)
           /\ hostI' = g.x)
    /\ hostR' = IF eng.r_active THEN destroy(tr, hostR) ELSE hostR
    /\ wire' = Wire("none", wire.m)
    /\ eng' = [eng EXCEPT !.turn = "i_build", !.migrations = @ + 1,
                          !.faults = @ + 1,
                          !.r_active = FALSE, !.i_handler = "migrate"]
    /\ UNCHANGED <<tr, lower>>

Next ==
    \/ InitiatorBuild
    \/ ResponderProcess
    \/ ResponderBuild
    \/ InitiatorProcess
    \/ ForgedResponse
    \/ ForgedRequest
    \/ Abort
    \/ Migrate

Spec == Init /\ [][Next]_vars

(***************************************************************************)
(* The creator of a task configures it and the task builds its first       *)
(* request on an IKE_SA that holds a CHILD_SA already.                     *)
(***************************************************************************)
\* a CHILD_SA the IKE_SA holds
ExistingChildren ==
    {[child_sa_create(cfg, [ChildData EXCEPT !.reqid = reqid,
                                             !.mark_in = mark[1],
                                             !.mark_out = mark[2],
                                             !.if_id_in = if_id[1],
                                             !.if_id_out = if_id[2],
                                             !.label = label])
        EXCEPT !.state = state, !.my_spi = MaxSpi] :
        cfg \in {CfgComp, CfgAlt}, reqid \in 0..MaxReqid,
        mark \in (0..MaxMark) \X (0..MaxMark),
        if_id \in (0..MaxMark) \X (0..MaxMark),
        label \in 0..MaxMark, state \in {"INSTALLED", "REKEYED"}}

InitDup ==
    \E existing \in ExistingChildren :
        /\ ti = child_create_create(Ptr(CfgComp), FALSE, NULL, NULL)
        /\ tr = child_create_create(NULL, FALSE, NULL, NULL)
        /\ hostI = [Host(1, 2) EXCEPT !.child_sas = <<existing>>]
        /\ hostR = Host(2, 1)
        /\ wire = Wire("none", Message("NONE"))
        /\ eng = [Engine("forged_r", "CREATE_CHILD_SA", FALSE, NULL)
                     EXCEPT !.turn = "configure"]
        /\ lower = NULL

\* the creator of the task hands it the reqid, the marks, the interface IDs
\* and the label of the CHILD_SA to create, once or again, and then queues
\* the task
Configure ==
    /\ eng.turn = "configure"
    /\ \E reqid \in 0..MaxReqid, mark_in \in 0..MaxMark, if_id_out \in 0..MaxMark,
          label \in 0..MaxMark, ref_ok \in BOOLEAN, queue \in BOOLEAN :
        Let(use_reqid(ti, hostI, reqid, ref_ok), LAMBDA u :
            /\ ti' = use_label(use_if_ids(use_marks(u.t, mark_in, 0), 0, if_id_out),
                               label)
            /\ hostI' = u.x
            /\ eng' = [eng EXCEPT !.turn = IF queue THEN "i_build" ELSE "configure"])
    /\ UNCHANGED <<tr, hostR, wire, lower>>

NextDup ==
    \/ Configure
    \/ InitiatorBuild

SpecDup == InitDup /\ [][NextDup]_vars

(***************************************************************************)
(* The rekey task asks a task for the lower of its two nonces.             *)
(***************************************************************************)
Nonces == SeqsUpTo(0..MaxByte, MaxNonceLen)

InitNonce ==
    \E mine \in Nonces, other \in Nonces :
        /\ ti = [child_create_create(Ptr(CfgPfs), TRUE, NULL, NULL)
                    EXCEPT !.my_nonce = mine, !.other_nonce = other]
        /\ tr = child_create_create(NULL, TRUE, NULL, NULL)
        /\ hostI = Host(1, 2)
        /\ hostR = Host(2, 1)
        /\ wire = Wire("none", Message("NONE"))
        /\ eng = [Engine("honest", "CREATE_CHILD_SA", TRUE, NULL)
                     EXCEPT !.turn = "done"]
        /\ lower = NULL

GetLowerNonce ==
    /\ eng.turn = "done"
    /\ IsNull(lower)
    /\ lower' = Ptr(get_lower_nonce(ti))
    /\ UNCHANGED <<ti, tr, hostI, hostR, wire, eng>>

NextNonce == GetLowerNonce

SpecNonce == InitNonce /\ [][NextNonce]_vars

(***************************************************************************)
(* Properties                                                              *)
(***************************************************************************)
\* the task has run build_i on a request of its own
BuiltRequest == eng.i_handler = "build_i" /\ ~IsNull(ti.child_sa)

\* a and b agree in all that child_sa_equals compares but the reqid
EqualButReqid(a, b) ==
    /\ a.config = b.config
    /\ a.mark_in = b.mark_in /\ a.mark_out = b.mark_out
    /\ a.if_id_in = b.if_id_in /\ a.if_id_out = b.if_id_out
    /\ a.label = b.label

\* the IKE_SA x holds an INSTALLED CHILD_SA that equals c but for the reqid
\* and whose reqid stands in relation Req(_, _) to that of c
HoldsEqual(x, c, Req(_, _)) ==
    \E i \in 1..Len(x.child_sas) :
        /\ x.child_sas[i].state = "INSTALLED"
        /\ EqualButReqid(x.child_sas[i], c)
        /\ Req(x.child_sas[i].reqid, c.reqid)

ReqidOneZeroOrEqual(a, b) == a = 0 \/ b = 0 \/ a = b
ReqidBothZeroOrEqual(a, b) == (a = 0 /\ b = 0) \/ a = b

\* C7: when build_i runs for a CREATE_CHILD_SA request that is no rekeying
\* and the IKE_SA holds an INSTALLED CHILD_SA equal to the new one, the
\* exchange type is set to undefined, SUCCESS is returned, no message is
\* sent and neither an SPI nor a CPI is allocated.
C7_DuplicateSendsNothing ==
    [][(/\ eng.turn = "i_build" /\ eng'.turn # "i_build"
        /\ ti.build = "build_i" /\ ~ti.rekey
        /\ RequestExchange = "CREATE_CHILD_SA"
        /\ ~IsNull(ti'.child_sa)
        /\ HoldsEqual(hostI, Deref(ti'.child_sa), ReqidOneZeroOrEqual))
       => /\ eng'.i_st = "SUCCESS"
          /\ eng'.turn = "done"
          /\ wire'.kind = "none"
          /\ wire'.m = [Message("CREATE_CHILD_SA") EXCEPT !.exchange = "UNDEFINED"]
          /\ eng'.requests = eng.requests
          /\ ti'.my_spi = ti.my_spi /\ ti'.my_cpi = ti.my_cpi
          /\ Deref(ti'.child_sa).my_spi = 0 /\ Deref(ti'.child_sa).my_cpi = 0
          /\ ti'.ipcomp = ti.ipcomp]_vars

\* C7 happens: a task whose configuration asks for IPComp found a duplicate
C7_Witness ==
    /\ BuiltRequest /\ eng.turn = "done" /\ eng.i_st = "SUCCESS"
    /\ ~ti.rekey /\ Deref(ti.config).ipcomp
    /\ HoldsEqual(hostI, Deref(ti.child_sa), ReqidOneZeroOrEqual)
    /\ wire.m.exchange = "UNDEFINED"
    /\ ti.my_spi = 0 /\ ti.my_cpi = 0

\* C8 (as the code has it): check_for_duplicate reports a duplicate, and
\* build_i sends nothing, if and only if an existing CHILD_SA is INSTALLED
\* and has the same configuration, marks, interface IDs and label as the new
\* one and at least one of the two reqids is zero or the two are equal.
C8_DuplicateIffOneReqidZeroOrEqual ==
    (BuiltRequest /\ ~ti.rekey /\ eng.exchange = "CREATE_CHILD_SA") =>
        Let(HoldsEqual(hostI, Deref(ti.child_sa), ReqidOneZeroOrEqual), LAMBDA dup :
            /\ check_for_duplicate(ti, hostI) <=> dup
            /\ wire.m.exchange = "UNDEFINED" <=> dup)

\* C8 happens where the two readings differ: one reqid is zero and the
\* other is not, and the new CHILD_SA is taken for a duplicate
C8_Witness ==
    /\ BuiltRequest /\ eng.turn = "done" /\ ~ti.rekey
    /\ wire.m.exchange = "UNDEFINED"
    /\ check_for_duplicate(ti, hostI)
    /\ Deref(ti.child_sa).reqid # 0
    /\ hostI.child_sas[1].reqid = 0

\* C8 as stated: ... and either both reqids are zero or the reqids are equal
C8_AsStated ==
    (BuiltRequest /\ ~ti.rekey /\ eng.exchange = "CREATE_CHILD_SA") =>
        (check_for_duplicate(ti, hostI)
            <=> HoldsEqual(hostI, Deref(ti.child_sa), ReqidBothZeroOrEqual))

\* a is smaller than b at the first of the first n bytes they differ in
PrefixLess(a, b, n) ==
    \E k \in 1..n : a[k] < b[k] /\ \A j \in 1..(k - 1) : a[j] = b[j]

CommonLen == Min(Len(ti.my_nonce), Len(ti.other_nonce))

\* C9 (as the code has it): get_lower_nonce compares the first
\* min(len(my_nonce), len(other_nonce)) bytes of the two nonces; it returns
\* my_nonce if that is the smaller one there and other_nonce otherwise,
\* also if the two are equal over that length.
C9_LowerNonceTieIsOther ==
    ~IsNull(lower) =>
        Deref(lower) = IF PrefixLess(ti.my_nonce, ti.other_nonce, CommonLen)
                       THEN ti.my_nonce ELSE ti.other_nonce

\* C9 happens: two different nonces that are equal over the common length
C9_Witness ==
    /\ ~IsNull(lower)
    /\ ti.my_nonce # ti.other_nonce
    /\ CommonLen > 0
    /\ ~PrefixLess(ti.my_nonce, ti.other_nonce, CommonLen)
    /\ ~PrefixLess(ti.other_nonce, ti.my_nonce, CommonLen)
    /\ Deref(lower) = ti.other_nonce

\* C9 as stated: the smaller one is returned and my_nonce if the two are
\* equal over the common length
C9_AsStated ==
    ~IsNull(lower) =>
        Deref(lower) = IF PrefixLess(ti.other_nonce, ti.my_nonce, CommonLen)
                       THEN ti.other_nonce ELSE ti.my_nonce

\* the initiating task is handed a response with an INVALID_KE_PAYLOAD notify
GotInvalidKe ==
    /\ eng.turn = "i_process" /\ eng'.turn # "i_process"
    /\ HasNotify(wire.m, INVALID_KE_PAYLOAD)

\* the first notify of the response the scan of process_i acts on
FirstActedOn == wire.m.notifies[ScanNotifies(wire.m, 1)]

\* the method an INVALID_KE_PAYLOAD notify suggests
Suggested(n) == IF Len(n.data) = 2 THEN Untoh16(n.data) ELSE KE_NONE

NothingInstalled ==
    ~ti'.established /\ hostI'.installs = hostI.installs
                     /\ hostI'.child_sas = hostI.child_sas

WithoutInvalidKe(m) ==
    [m EXCEPT !.notifies = SelectSeq(@, LAMBDA n : n.type # INVALID_KE_PAYLOAD)]

\* C1 (as the code has it): retry, once set, stays set, also over migrate,
\* and the task retries at most once.  Where process_i handles a response
\* and INVALID_KE_PAYLOAD is the first notify its scan acts on: an aborted
\* task returns SUCCESS; the first such response sets retry, records the
\* suggested method (none if the data is not two bytes long) and returns
\* NEED_MORE with build_i installed; every later one, also after migrate,
\* returns SUCCESS, installs no CHILD_SA and no further request is built.
\* Where another notify the scan acts on precedes it, process_i returns
\* SUCCESS without a retry; process_i_multi_ke does not look at the notify.
C1_RetriesAtMostOnce ==
    [][/\ ti.retry => ti'.retry
       /\ (GotInvalidKe /\ ti.process = "process_i") =>
            IF ti.aborted \/ FirstActedOn.type # INVALID_KE_PAYLOAD
            THEN /\ eng'.i_st = "SUCCESS" /\ eng'.turn = "done"
                 /\ ti'.retry = ti.retry /\ ti'.ke_method = ti.ke_method
                 /\ NothingInstalled
            ELSE IF ~ti.retry
            THEN /\ ti'.retry /\ ti'.ke_method = Suggested(FirstActedOn)
                 /\ eng'.i_st = "NEED_MORE" /\ eng'.turn = "i_build"
                 /\ ti'.build = "build_i" /\ ti'.process = "process_i"
                 /\ NothingInstalled
            ELSE /\ eng'.i_st = "SUCCESS" /\ eng'.turn = "done"
                 /\ ti'.ke_method = ti.ke_method
                 /\ NothingInstalled
       /\ (GotInvalidKe /\ ti.process = "process_i_multi_ke") =>
            \A e \in EnvsInstall :
                Let(ProcessI(ti, hostI, wire.m, e), LAMBDA with :
                    Let(ProcessI(ti, hostI, WithoutInvalidKe(wire.m), e), LAMBDA without :
                    with.t = without.t /\ with.st = without.st))]_vars

\* C1 happens: a task that retried and was migrated since gets its second
\* INVALID_KE_PAYLOAD and is done
C1_Witness ==
    /\ eng.turn = "done" /\ eng.i_handler = "process_i" /\ eng.i_st = "SUCCESS"
    /\ wire.kind = "resp"
    /\ ScanNotifies(wire.m, 1) # 0
    /\ wire.m.notifies[ScanNotifies(wire.m, 1)].type = INVALID_KE_PAYLOAD
    /\ ti.retry /\ ~ti.aborted /\ ~ti.established
    /\ eng.migrations > 0 /\ eng.requests > 1

\* C1 as stated: the first INVALID_KE_PAYLOAD a task that is not aborted
\* receives sets retry, records the method and returns NEED_MORE, every
\* later one returns SUCCESS, no CHILD_SA installed, no further request
C1_AsStated ==
    [][(GotInvalidKe /\ ~ti.aborted) =>
            IF ~ti.retry
            THEN /\ ti'.retry
                 /\ \E i \in 1..Len(wire.m.notifies) :
                        /\ wire.m.notifies[i].type = INVALID_KE_PAYLOAD
                        /\ ti'.ke_method = Suggested(wire.m.notifies[i])
                 /\ eng'.i_st = "NEED_MORE"
            ELSE /\ eng'.i_st = "SUCCESS" /\ eng'.turn = "done"
                 /\ NothingInstalled]_vars

\* the runs of install_child_sa so far, on either peer
Attempts ==
    {hostI.installs[i] : i \in 1..Len(hostI.installs)} \cup
    {hostR.installs[i] : i \in 1..Len(hostR.installs)}

Succeeded(x) == {i \in 1..Len(x.installs) : x.installs[i].status = "SUCCESS"}

\* C2 (as the code has it): within one install_child_sa attempt the
\* outbound SA is installed, or registered when rekeying, exactly when the
\* keys were derived, whatever the inbound install returned; if the inbound
\* or the outbound install did not return SUCCESS the attempt returns
\* FAILED, no policies are installed, and the CHILD_SA is neither added to
\* the IKE_SA nor the task established.
C2_OutboundWheneverDerived ==
    /\ \A a \in Attempts :
        /\ a.out_op = (IF ~a.derived THEN "none"
                       ELSE IF a.rekey THEN "register" ELSE "install")
        /\ (a.status_i # "SUCCESS" \/ a.status_o # "SUCCESS")
              => a.status = "FAILED" /\ ~a.policies
    /\ Len(hostI.child_sas) = Cardinality(Succeeded(hostI))
    /\ Len(hostR.child_sas) = Cardinality(Succeeded(hostR))
    /\ ti.established => Succeeded(hostI) # {}
    /\ tr.established => Succeeded(hostR) # {}

\* C2 happens: the inbound install failed and the outbound SA was installed
C2_Witness ==
    \E a \in Attempts :
        /\ a.derived /\ a.status_i = "FAILED"
        /\ a.out_op = "install" /\ a.status_o = "SUCCESS"
        /\ a.status = "FAILED"

\* C2 as stated: no outbound install or registration in an attempt whose
\* inbound install did not return SUCCESS
C2_AsStated ==
    \A a \in Attempts : a.status_i # "SUCCESS" => a.out_op = "none"

\* C3: wherever a task is established its my_spi is not zero, it is the
\* SPI the allocator returned for the CHILD_SA that was installed and it is
\* the SPI the inbound install was given.
C3_EstablishedSpi ==
    \A side \in {<<ti, hostI>>, <<tr, hostR>>} :
        Let(side[1], LAMBDA t :
            Let(side[2], LAMBDA x :
            Let(x.installs[Len(x.installs)], LAMBDA last :
            t.established =>
                /\ t.my_spi # 0
                /\ ~IsNull(t.child_sa)
                /\ Deref(t.child_sa).my_spi = t.my_spi
                /\ Deref(t.child_sa).state = "INSTALLED"
                /\ Len(x.child_sas) > 0
                /\ x.child_sas[Len(x.child_sas)] = Deref(t.child_sa)
                /\ Len(x.installs) > 0
                /\ last.initiator = t.initiator
                /\ last.status = "SUCCESS" /\ last.status_i = "SUCCESS"
                /\ last.in_op /\ last.in_spi = t.my_spi)))

\* C3 happens: both tasks are established, with SPIs of their own
C3_Witness ==
    /\ ti.established /\ tr.established
    /\ ti.my_spi = MaxSpi /\ tr.my_spi # ti.my_spi
    /\ ti.other_spi = tr.my_spi /\ tr.other_spi = ti.my_spi

\* the number of key exchanges of a plan
PlanSize(plan) == Cardinality({s \in Slots : plan[s].type # 0})

\* C4 as stated: where the plan has N >= 1 key exchanges,
\* derive_child_keys gets exactly N sessions, session j with the method of
\* plan slot j, the slots in ascending order of the transform type, and
\* the two peers pass their sessions in the same order.
C4_AsStated ==
    /\ \A a \in Attempts :
        Let(PlanSize(a.plan), LAMBDA N :
            N >= 1 =>
              /\ Len(a.kes) = N
              /\ \A j \in 1..N : /\ a.plan[j - 1].type # 0
                                 /\ a.kes[j].method = a.plan[j - 1].method
              /\ \A j \in 1..(N - 1) : a.plan[j - 1].type < a.plan[j].type)
    /\ (ti.established /\ tr.established) =>
          [j \in 1..Len(ti.kes) |-> ti.kes[j].method]
              = [j \in 1..Len(tr.kes) |-> tr.kes[j].method]

\* C4 fails: a CHILD_SA was installed for a plan of one key exchange with
\* keys derived from no session at all
C4_Witness ==
    \E a \in Attempts :
        /\ a.initiator /\ a.status = "SUCCESS"
        /\ PlanSize(a.plan) = 1 /\ a.plan[0].type = KEY_EXCHANGE_METHOD
        /\ a.kes = <<>>

\* C4 among peers that are both this implementation
C4_Honest == eng.peer = "honest" => C4_AsStated

\* C4 for a responder of this implementation
C4_Responder == eng.peer = "forged_i" => C4_AsStated

\* a request of an IKE_FOLLOWUP_KE exchange without the token the responder
\* emitted is with the responding task, which has processed it
BadLinkRequest ==
    /\ eng.turn = "r_build" /\ eng'.turn # "r_build"
    /\ tr.build = "build_r_multi_ke"
    /\ wire.kind = "req" /\ wire.m.exchange = "IKE_FOLLOWUP_KE"
    /\ \/ ~HasNotify(wire.m, ADDITIONAL_KEY_EXCHANGE)
       \/ GetNotify(wire.m, ADDITIONAL_KEY_EXCHANGE).data # <<LINK_INITIAL>>

\* the request has no KE payload of the method that is due
NoUsableKe ==
    \/ Len(wire.m.ke) = 0
    \/ wire.m.ke[1].method # CurrentMethod(tr)
    \/ wire.m.ke[1].method \notin hostR.supported

NotInstalledR ==
    ~tr'.established /\ hostR'.installs = hostR.installs
                     /\ hostR'.child_sas = hostR.child_sas

\* C5 (as the code has it): once the responder has emitted a link token,
\* every IKE_FOLLOWUP_KE request whose ADDITIONAL_KEY_EXCHANGE notify is
\* missing or differs from the token is answered with a single error
\* notify, build returns SUCCESS and the CHILD_SA is not installed.  The
\* notify is INVALID_SYNTAX if the request has no KE payload of the method
\* that is due, NO_PROPOSAL_CHOSEN if the public value of its KE payload is
\* rejected, and STATE_NOT_FOUND otherwise.
C5_BadLinkIsAnError ==
    [][BadLinkRequest =>
        /\ wire'.kind = "resp"
        /\ wire'.m = AddNotify(Message("IKE_FOLLOWUP_KE"),
                               IF NoUsableKe THEN INVALID_SYNTAX
                               ELSE IF ~wire.m.ke[1].ok THEN NO_PROPOSAL_CHOSEN
                               ELSE STATE_NOT_FOUND,
                               <<>>)
        /\ eng'.r_st = "SUCCESS"
        /\ NotInstalledR]_vars

\* C5 happens: a follow-up request with a good KE payload and a wrong token
\* was answered with STATE_NOT_FOUND
C5_Witness ==
    /\ eng.r_handler = "build_r_multi_ke" /\ eng.r_st = "SUCCESS"
    /\ wire.kind = "resp"
    /\ wire.m.notifies = <<Notify(STATE_NOT_FOUND, <<>>)>>
    /\ ~tr.established /\ hostR.installs = <<>>
    /\ ~IsNull(tr.ke) /\ ~tr.ke_failed

\* C5 as stated: every such request is answered with STATE_NOT_FOUND
C5_AsStated ==
    [][BadLinkRequest =>
        /\ HasNotify(wire'.m, STATE_NOT_FOUND)
        /\ eng'.r_st = "SUCCESS"
        /\ NotInstalledR]_vars

\* the initiating task builds with build_i_multi_ke
BuildsFollowUp ==
    /\ eng.turn = "i_build" /\ eng'.turn # "i_build"
    /\ ti.build = "build_i_multi_ke"

\* the token of the response the initiating task processed last
ResponseToken ==
    IF wire.kind = "resp" /\ HasNotify(wire.m, ADDITIONAL_KEY_EXCHANGE)
    THEN GetNotify(wire.m, ADDITIONAL_KEY_EXCHANGE).data ELSE <<>>

\* C6: every IKE_FOLLOWUP_KE request the initiator builds carries an
\* ADDITIONAL_KEY_EXCHANGE notify with the token of the preceding response,
\* which against a responder of this implementation is the token that one
\* emitted in the first round of key exchanges and holds since; if the
\* preceding response carried no token build_i_multi_ke returns FAILED and
\* adds no payloads to the message.
C6_FollowUpCarriesToken ==
    [][BuildsFollowUp =>
        IF ResponseToken # <<>>
        THEN /\ eng'.i_st \in {"NEED_MORE", "FAILED"}
             /\ eng'.i_st = "NEED_MORE" =>
                  /\ wire'.kind = "req"
                  /\ wire'.m.exchange = "IKE_FOLLOWUP_KE"
                  /\ Len(wire'.m.ke) = 1
                  /\ HasNotify(wire'.m, ADDITIONAL_KEY_EXCHANGE)
                  /\ GetNotify(wire'.m, ADDITIONAL_KEY_EXCHANGE).data = ResponseToken
                  /\ eng.peer = "honest" =>
                       /\ tr.link = <<LINK_INITIAL>>
                       /\ ResponseToken = tr.link
        ELSE /\ eng'.i_st = "FAILED"
             /\ wire'.kind = "none"
             /\ wire'.m = Message("IKE_FOLLOWUP_KE")]_vars

\* C6 happens: the second follow-up request of a run of two peers of this
\* implementation is on the wire, with the responder's token
C6_Witness ==
    /\ eng.peer = "honest" /\ eng.turn = "r_process"
    /\ wire.kind = "req" /\ wire.m.exchange = "IKE_FOLLOWUP_KE"
    /\ ti.ke_index = 2
    /\ HasNotify(wire.m, ADDITIONAL_KEY_EXCHANGE)
    /\ GetNotify(wire.m, ADDITIONAL_KEY_EXCHANGE).data = <<LINK_INITIAL>>
    /\ tr.link = <<LINK_INITIAL>>

\* the transform types with a key exchange method in proposal p
PresentTypes(p) == {t \in KeTypes : HasAlgorithm(p, t)}

\* the additional key exchanges of proposal p have a gap
HasGap(p) ==
    /\ HasAlgorithm(p, KEY_EXCHANGE_METHOD)
    /\ \E b \in ADDITIONAL_KEY_EXCHANGE_1..ADDITIONAL_KEY_EXCHANGE_7 :
         /\ ~HasAlgorithm(p, b)
         /\ \E c \in (b + 1)..ADDITIONAL_KEY_EXCHANGE_7 : HasAlgorithm(p, c)

\* the plan holds the key exchanges of p, and no others, in ascending order
\* of their transform type in slots without a gap
PacksPresent(plan, p) ==
    /\ \A t \in PresentTypes(p) :
         Let(Cardinality({u \in PresentTypes(p) : u < t}), LAMBDA s :
             plan[s].type = t /\ plan[s].method = GetAlgorithm(p, t))
    /\ \A s \in Slots : s >= Cardinality(PresentTypes(p)) => plan[s].type = 0

\* C10 (as the code has it): a selected proposal whose additional key
\* exchanges have a gap is not rejected; the plan built from it holds the
\* key exchanges that are present in ascending order of their transform
\* type in consecutive slots, all of them are made and the CHILD_SA is
\* installed with their sessions.
C10_GapIsPacked ==
    /\ \A t \in {ti, tr} :
         (~IsNull(t.proposal) /\ HasGap(Deref(t.proposal))
            /\ t.key_exchanges[0].type # 0)
         => PacksPresent(t.key_exchanges, Deref(t.proposal))
    /\ \A a \in Attempts :
         HasGap(a.proposal) =>
            /\ PacksPresent(a.plan, a.proposal)
            /\ eng.peer = "honest" =>
                 Len(a.kes) = Cardinality(PresentTypes(a.proposal))

\* C10 happens: both peers installed a CHILD_SA for a proposal with the
\* first and the third additional key exchange
C10_Witness ==
    /\ ti.established /\ tr.established
    /\ HasGap(Deref(ti.proposal)) /\ HasGap(Deref(tr.proposal))
    /\ ti.key_exchanges[2].type = ADDITIONAL_KEY_EXCHANGE_1 + 2
    /\ Len(ti.kes) = 3 /\ Len(tr.kes) = 3

\* C10 as stated: no plan is built from a proposal with a gap and no
\* CHILD_SA is installed for it
C10_AsStated ==
    /\ \A t \in {ti, tr} :
         (~IsNull(t.proposal) /\ HasGap(Deref(t.proposal)))
         => /\ \A s \in Slots : t.key_exchanges[s].type = 0
            /\ ~t.established
    /\ \A a \in Attempts : ~HasGap(a.proposal)

\* proposal p has the first additional key exchange and no primary one
AdditionalOnly(p) ==
    HasAlgorithm(p, ADDITIONAL_KEY_EXCHANGE_1) /\ ~HasAlgorithm(p, KEY_EXCHANGE_METHOD)

C11_WitnessR ==
    \E a \in Attempts :
        /\ ~a.initiator /\ a.status = "SUCCESS" /\ AdditionalOnly(a.proposal)
        /\ a.kes = <<>> /\ tr.established

\* the initiating task, aborted and with an SPI of its own, is handed the
\* response to its request
AbortedGotResponse ==
    /\ eng.turn = "i_process" /\ eng'.turn # "i_process"
    /\ ti.aborted /\ ti.my_spi # 0

\* the response carries a notify the handler returns on before it looks at
\* the aborted flag: a notify the scan of process_i acts on, or
\* TEMPORARY_FAILURE for process_i_multi_ke
EndsOnNotify ==
    IF ti.process = "process_i" THEN ScanNotifies(wire.m, 1) # 0
    ELSE HasNotify(wire.m, TEMPORARY_FAILURE)

\* the initiating task builds with build_i_delete
BuildsDelete ==
    /\ eng.turn = "i_build" /\ eng'.turn # "i_build"
    /\ ti.build = "build_i_delete"

\* C12 (as the code has it): an aborted initiator task with an SPI that is
\* handed a response without a notify its handler returns on switches its
\* build to build_i_delete, destroys its CHILD_SA object and returns
\* NEED_MORE, installing nothing; the build that follows emits an
\* INFORMATIONAL message with one DELETE payload of (protocol, my_spi) and
\* returns SUCCESS.  If the response has such a notify, process returns
\* SUCCESS, the build is not switched and no DELETE is sent.
C12_AbortedDeletes ==
    [][/\ AbortedGotResponse =>
            IF EndsOnNotify
            THEN /\ eng'.i_st = "SUCCESS" /\ eng'.turn = "done"
                 /\ ti'.build = ti.build
                 /\ NothingInstalled
            ELSE /\ eng'.i_st = "NEED_MORE" /\ eng'.turn = "i_build"
                 /\ ti'.build = "build_i_delete"
                 /\ IsNull(ti'.child_sa)
                 /\ ti'.my_spi = ti.my_spi /\ ti'.proto = ti.proto
                 /\ NothingInstalled
       /\ BuildsDelete =>
            /\ ti.my_spi # 0 /\ ti.proto = "ESP"
            /\ wire'.kind = "req"
            /\ wire'.m.exchange = "INFORMATIONAL"
            /\ wire'.m.del = <<[protocol |-> ti.proto, spi |-> ti.my_spi]>>
            /\ eng'.i_st = "SUCCESS" /\ eng'.turn = "done"]_vars

\* C12 happens: a task aborted during its second key exchange has sent the
\* DELETE for its SPI
C12_Witness ==
    /\ eng.turn = "done" /\ eng.i_handler = "build_i_delete" /\ eng.i_st = "SUCCESS"
    /\ ti.aborted /\ ti.process = "process_i_multi_ke"
    /\ wire.kind = "req" /\ wire.m.exchange = "INFORMATIONAL"
    /\ wire.m.del = <<[protocol |-> "ESP", spi |-> ti.my_spi]>>
    /\ ti.my_spi # 0

\* C12 as stated: whatever the response, the aborted task switches to
\* build_i_delete
C12_AsStated ==
    [][AbortedGotResponse =>
            /\ ti'.build = "build_i_delete"
            /\ eng'.i_st = "NEED_MORE"]_vars

\* the initiating task is handed a response
GotResponse == eng.turn = "i_process" /\ eng'.turn # "i_process"

\* process_i gets as far as its scan of the notifies
ScanReached ==
    \/ wire.m.exchange = "CREATE_CHILD_SA"
    \/ /\ wire.m.exchange = "IKE_AUTH"
       /\ hostI.authenticated
       /\ defer_child_sa(ti, hostI) # "NEED_MORE"

\* the handler acts on a TEMPORARY_FAILURE notify: for process_i it is the
\* first notify its scan acts on, for process_i_multi_ke it is anywhere in
\* the response
ActsOnTemporaryFailure ==
    IF ti.process = "process_i"
    THEN /\ ScanReached
         /\ ScanNotifies(wire.m, 1) # 0
         /\ wire.m.notifies[ScanNotifies(wire.m, 1)].type = TEMPORARY_FAILURE
    ELSE HasNotify(wire.m, TEMPORARY_FAILURE)

\* C13 (as the code has it): when the TEMPORARY_FAILURE notify of a response
\* is the one the handler acts on, process returns SUCCESS and installs
\* nothing, and exactly one delayed retry is scheduled if the task is
\* neither a rekey nor aborted, none otherwise; a response whose
\* TEMPORARY_FAILURE is not the notify acted on schedules no retry.
C13_TemporaryFailureRetries ==
    [][GotResponse =>
          IF ActsOnTemporaryFailure
          THEN /\ eng'.i_st = "SUCCESS" /\ eng'.turn = "done"
               /\ NothingInstalled
               /\ hostI'.retries = hostI.retries
                                     + (IF ~ti.rekey /\ ~ti.aborted THEN 1 ELSE 0)
          ELSE hostI'.retries = hostI.retries]_vars

\* C13 happens: a response with TEMPORARY_FAILURE ahead of another error
\* notify made a task that is no rekey schedule a retry
C13_Witness ==
    /\ eng.turn = "done" /\ eng.i_handler = "process_i" /\ eng.i_st = "SUCCESS"
    /\ wire.kind = "resp" /\ Len(wire.m.notifies) = 2
    /\ wire.m.notifies[1].type = TEMPORARY_FAILURE
    /\ wire.m.notifies[2].type = NO_PROPOSAL_CHOSEN
    /\ ~ti.rekey /\ ~ti.aborted
    /\ hostI.retries = 1

\* C13 happens for a rekey: no retry is scheduled
C13_WitnessRekey ==
    /\ eng.turn = "done" /\ eng.i_handler = "process_i" /\ eng.i_st = "SUCCESS"
    /\ wire.kind = "resp" /\ HasNotify(wire.m, TEMPORARY_FAILURE)
    /\ wire.m.notifies[1].type = TEMPORARY_FAILURE
    /\ ti.rekey /\ hostI.retries = 0

\* C13 as stated: a TEMPORARY_FAILURE anywhere in the response makes a task
\* that is neither a rekey nor aborted schedule a retry and return SUCCESS
C13_AsStated ==
    [][(GotResponse /\ HasNotify(wire.m, TEMPORARY_FAILURE)
            /\ ~ti.rekey /\ ~ti.aborted) =>
          /\ eng'.i_st = "SUCCESS"
          /\ hostI'.retries = hostI.retries + 1]_vars

(***************************************************************************)
(* A packet triggers a CHILD_SA: the task is created with the packet's     *)
(* selectors, its creator configures it, and the peer answers its request  *)
(* with TEMPORARY_FAILURE.                                                 *)
(***************************************************************************)
\* a child configuration with a generic SELinux label
CfgSelinux ==
    [CfgPfs EXCEPT !.name = "selinux", !.label = 1, !.label_mode = "SELINUX"]

\* the task is the first one of an IKE_SA (IKE_AUTH), whose IKE config has a
\* childless policy, or one of an established IKE_SA (CREATE_CHILD_SA), on a
\* host whose plugins may lack the configured key exchange method
InitRetry ==
    \E cfg \in {CfgPfs, CfgSelinux}, packet \in BOOLEAN,
       exchange \in {"IKE_AUTH", "CREATE_CHILD_SA"},
       policy \in {"NEVER", "PREFER", "FORCE"}, ext \in BOOLEAN,
       supported \in {Methods, Methods \ {1}} :
        /\ exchange = "CREATE_CHILD_SA" => policy = "NEVER" /\ ~ext
        /\ supported # Methods => exchange = "CREATE_CHILD_SA" /\ ~packet
        /\ ti = WithInitNonces(
                    child_create_create(Ptr(cfg), FALSE,
                                        IF packet THEN Ptr(Ts(1, 1)) ELSE NULL,
                                        IF packet THEN Ptr(Ts(2, 1)) ELSE NULL),
                    exchange, <<0, 1>>, <<1, 0>>)
        /\ tr = child_create_create(NULL, FALSE, NULL, NULL)
        /\ hostI = [Host(1, 2) EXCEPT !.childless = policy, !.ext_childless = ext,
                                      !.supported = supported]
        /\ hostR = Host(2, 1)
        /\ wire = Wire("none", Message("NONE"))
        /\ eng = [Engine("forged_r", exchange, FALSE, NULL)
                     EXCEPT !.turn = "configure"]
        /\ lower = NULL

\* the peer answers the request with a TEMPORARY_FAILURE notify, alone or
\* with another error notify
TemporaryFailure ==
    /\ eng.turn = "r_process"
    /\ \E m \in ForgedResponses(wire.m.exchange) :
        /\ HasNotify(m, TEMPORARY_FAILURE)
        /\ wire' = Wire("resp", m)
        /\ eng' = [eng EXCEPT !.turn = "i_process", !.forged = @ + 1]
    /\ UNCHANGED <<ti, tr, hostI, hostR, lower>>

NextRetry ==
    \/ Configure
    \/ InitiatorBuild
    \/ TemporaryFailure
    \/ InitiatorProcess

SpecRetry == InitRetry /\ [][NextRetry]_vars

\* the task schedule_delayed_retry queued last
LastQueued(x) == x.queued[Len(x.queued)]

\* C14: the task a response makes schedule_delayed_retry queue is an
\* initiating task that is no rekey, for the child configuration and the
\* packet selectors of the task that queued it, and it has that task's
\* reqid, marks, interface IDs and label; the reqid stays referenced when
\* the original task is destroyed.
C14_RetryCarriesOver ==
    [][(GotResponse /\ hostI'.retries # hostI.retries) =>
          /\ Len(hostI'.queued) = Len(hostI.queued) + 1
          /\ Let(LastQueued(hostI'), LAMBDA q :
                 /\ q.initiator /\ ~q.rekey
                 /\ q.build = "build_i" /\ q.process = "process_i"
                 /\ q.config = ti.config
                 /\ q.packet_tsi = ti.packet_tsi /\ q.packet_tsr = ti.packet_tsr
                 /\ q.child.reqid = ti.child.reqid
                 /\ q.child.mark_in = ti.child.mark_in
                 /\ q.child.mark_out = ti.child.mark_out
                 /\ q.child.if_id_in = ti.child.if_id_in
                 /\ q.child.if_id_out = ti.child.if_id_out
                 /\ q.child.label = ti.child.label
                 /\ q.child.reqid # 0 =>
                        /\ hostI'.reqid_refs[q.child.reqid] = 1
                        /\ hostI.reqid_refs[q.child.reqid] = 1)]_vars

\* C14 happens: a task with a reqid, marks, interface IDs, a label and
\* packet selectors has queued its retry
C14_Witness ==
    /\ eng.turn = "done" /\ eng.i_handler = "process_i"
    /\ hostI.retries = 1 /\ Len(hostI.queued) = 1
    /\ ti.child.reqid = MaxReqid /\ ti.child.mark_in = 1 /\ ti.child.if_id_out = 1
    /\ ti.child.label = 1
    /\ ~IsNull(ti.packet_tsi) /\ ~IsNull(ti.packet_tsr)
    /\ LastQueued(hostI).child = [ChildData EXCEPT !.reqid = MaxReqid, !.mark_in = 1,
                                                    !.if_id_out = 1, !.label = 1]

\* build_i builds the task's part of an IKE_AUTH request
BuildsIkeAuth ==
    /\ eng.turn = "i_build" /\ eng'.turn # "i_build"
    /\ ti.build = "build_i" /\ RequestExchange = "IKE_AUTH"

\* the peer supports childless IKE_SAs and the policy is PREFER or FORCE or
\* the task has the generic SELinux label only
DeferCase ==
    /\ hostI.ext_childless
    /\ hostI.childless \in {"PREFER", "FORCE"} \/ generic_label_only(ti)

\* C15: build_i for IKE_AUTH, with a peer that supports childless IKE_SAs
\* and a policy of PREFER or FORCE or the generic SELinux label only,
\* returns NEED_MORE, adds no payload, creates no CHILD_SA, allocates no
\* SPI and keeps its handlers; with the policy FORCE and a peer without the
\* extension it returns DESTROY_ME and sends nothing; in every other case it
\* goes on to build the CHILD_SA payloads.
C15_DefersChildless ==
    [][BuildsIkeAuth =>
          IF DeferCase
          THEN /\ eng'.i_st = "NEED_MORE"
               /\ wire' = Wire("req", Message("IKE_AUTH"))
               /\ IsNull(ti'.child_sa) /\ ti'.my_spi = 0 /\ ti'.proto = "NONE"
               /\ ti'.build = "build_i" /\ ti'.process = "process_i"
               /\ hostI' = hostI
          ELSE IF hostI.childless = "FORCE"
               THEN /\ eng'.i_st = "DESTROY_ME" /\ eng'.turn = "done"
                    /\ wire'.kind = "none" /\ wire'.m = Message("IKE_AUTH")
                    /\ ti' = ti
          ELSE /\ eng'.i_st \in {"NEED_MORE", "FAILED"}
               /\ ti'.build = "return_need_more"
               /\ eng'.i_st = "NEED_MORE" =>
                     /\ ~IsNull(wire'.m.sa) /\ ~IsNull(ti'.child_sa)
                     /\ ti'.my_spi # 0]_vars

\* C15 happens: the policy is NEVER, the peer supports childless IKE_SAs
\* and the task has the generic SELinux label only; its IKE_AUTH request
\* went out without a payload of the task
C15_Witness ==
    /\ eng.turn = "r_process" /\ eng.i_handler = "build_i" /\ eng.i_st = "NEED_MORE"
    /\ wire = Wire("req", Message("IKE_AUTH"))
    /\ hostI.ext_childless /\ hostI.childless = "NEVER"
    /\ ti.config = Ptr(CfgSelinux) /\ ti.child.label = 0
    /\ ti.my_spi = 0 /\ IsNull(ti.child_sa)

\* C15 happens: FORCE with a peer that lacks the extension
C15_WitnessForce ==
    /\ eng.turn = "done" /\ eng.i_handler = "build_i" /\ eng.i_st = "DESTROY_ME"
    /\ hostI.childless = "FORCE" /\ ~hostI.ext_childless
    /\ eng.requests = 0

\* build_r answers a request
BuildsResponse ==
    /\ eng.turn = "r_build" /\ eng'.turn # "r_build"
    /\ tr.build = "build_r"

\* build_r selected a proposal with a KEY_EXCHANGE_METHOD that does not have
\* the method of the KE payload process_r received
KeMethodMismatch ==
    /\ BuildsResponse
    /\ tr.ke_method # KE_NONE
    /\ ~IsNull(tr'.proposal)
    /\ HasAlgorithm(Deref(tr'.proposal), KEY_EXCHANGE_METHOD)
    /\ ~HasTransform(Deref(tr'.proposal), KEY_EXCHANGE_METHOD, tr.ke_method)

\* C16: when the proposal build_r selected has a KEY_EXCHANGE_METHOD but
\* not the method of the received KE payload, the response has nothing but
\* an INVALID_KE_PAYLOAD notify with the proposal's method as two bytes in
\* network order, build_r returns SUCCESS, and no CHILD_SA object was created,
\* no SPI allocated and nothing installed.
C16_InvalidKeAnswer ==
    [][KeMethodMismatch =>
          /\ eng'.r_st = "SUCCESS"
          /\ wire'.kind = "resp"
          /\ wire'.m = AddNotify(Message(wire.m.exchange), INVALID_KE_PAYLOAD,
                   Htons16(GetAlgorithm(Deref(tr'.proposal), KEY_EXCHANGE_METHOD)))
          /\ Untoh16(wire'.m.notifies[1].data)
                = GetAlgorithm(Deref(tr'.proposal), KEY_EXCHANGE_METHOD)
          /\ IsNull(tr'.child_sa) /\ tr'.my_spi = 0 /\ tr'.proto = "NONE"
          /\ hostR'.installs = hostR.installs
          /\ hostR'.destroyed = hostR.destroyed
          /\ hostR'.alerts = hostR.alerts]_vars

\* C16 happens: the request had a KE payload of method 2, the proposal
\* selected has method 1 and the response asks for it
C16_Witness ==
    /\ eng.r_handler = "build_r" /\ eng.r_st = "SUCCESS"
    /\ wire.kind = "resp"
    /\ wire.m.notifies = <<Notify(INVALID_KE_PAYLOAD, <<0, 1>>)>>
    /\ tr.ke_method = 2
    /\ ~IsNull(tr.proposal)
    /\ GetAlgorithm(Deref(tr.proposal), KEY_EXCHANGE_METHOD) = 1
    /\ tr.my_spi = 0 /\ IsNull(tr.child_sa)

\* a build handler of the responder answers a CREATE_CHILD_SA or
\* IKE_FOLLOWUP_KE request
AnswersChildRequest ==
    /\ eng.turn = "r_build" /\ eng'.turn # "r_build"
    /\ wire.m.exchange \in {"CREATE_CHILD_SA", "IKE_FOLLOWUP_KE"}

\* the task as build_r has it once it looked for a configuration
WithConfig ==
    IF IsNull(tr.config)
    THEN [tr EXCEPT !.config = select_child_cfg(tr, hostR, eng.cfg_r)] ELSE tr

\* the request lacks a TS payload, or no configuration matches its selectors
TsMismatch == IsNull(tr.tsi) \/ IsNull(tr.tsr) \/ IsNull(WithConfig.config)

\* no proposal of the request is acceptable
ProposalMismatch ==
    /\ ~TsMismatch
    /\ ~select_proposal(WithConfig, hostR, wire.m.exchange = "IKE_AUTH").ok

\* the labels of the request do not go with the configuration
LabelMismatch ==
    /\ ~TsMismatch /\ ~ProposalMismatch
    /\ ~select_label(WithConfig).ok

\* the response is an error: the one notify, no SA payload
ErrorResponse(types) ==
    /\ wire'.kind = "resp"
    /\ IsNull(wire'.m.sa) /\ IsNull(wire'.m.tsi) /\ wire'.m.ke = <<>>
    /\ Len(wire'.m.notifies) = 1
    /\ wire'.m.notifies[1].type \in types
    /\ wire'.m.notifies[1].data = <<>>

C19_WitnessNarrow ==
    /\ eng.r_handler = "build_r" /\ eng.r_st = "SUCCESS"
    /\ wire.kind = "resp" /\ wire.m.notifies = <<Notify(TS_UNACCEPTABLE, <<>>)>>
    /\ tr.my_spi # 0 /\ hostR.installs = <<>> /\ ~tr.established

\* C19 happens: no proposal of the request was acceptable
C19_WitnessProposal ==
    /\ eng.r_handler = "build_r" /\ eng.r_st = "SUCCESS"
    /\ wire.kind = "resp" /\ wire.m.notifies = <<Notify(NO_PROPOSAL_CHOSEN, <<>>)>>
    /\ ~IsNull(tr.config) /\ IsNull(tr.proposal) /\ tr.my_nonce # <<>>

\* build_i builds a request and does not defer it
BuildsChildRequest ==
    /\ eng.turn = "i_build" /\ eng'.turn # "i_build"
    /\ ti.build = "build_i"
    /\ RequestExchange = "IKE_AUTH" => defer_child_sa(ti, hostI) = "NOT_SUPPORTED"

\* generate_nonce failed: the task has no nonce for its request
NonceFailed ==
    /\ BuildsChildRequest /\ RequestExchange = "CREATE_CHILD_SA"
    /\ ti'.my_nonce = <<>>

\* allocate_spi failed: the CHILD_SA object was created (and the request is
\* not dropped for a generic label) but the task has no SPI
SpiFailed ==
    /\ BuildsChildRequest
    /\ ~(RequestExchange = "CREATE_CHILD_SA" /\ check_for_generic_label(ti))
    /\ ~IsNull(ti'.child_sa) /\ ti'.my_spi = 0

\* create_ke failed: the task has an SPI and a method no plugin provides
KeUnsupported ==
    /\ BuildsChildRequest
    /\ ti'.my_spi # 0 /\ ti'.ke_method # KE_NONE
    /\ ti'.ke_method \notin hostI.supported

\* C18 as stated: when the SPI cannot be allocated, no nonce can be made or
\* the key exchange method is not supported, build_i returns SUCCESS with
\* the exchange type undefined, and no message is sent
C18_AsStated ==
    [][(NonceFailed \/ SpiFailed \/ KeUnsupported) =>
          /\ eng'.i_st = "SUCCESS"
          /\ wire'.m.exchange = "UNDEFINED"
          /\ wire'.kind = "none"]_vars

\* what the code does (C18): only the failed nonce gives SUCCESS with an
\* undefined exchange type; the failed SPI allocation and the unsupported
\* method make build_i return FAILED with the exchange type as it was; no
\* message is sent in either case
C18_OnlyNonceIsSuppressed ==
    [][/\ NonceFailed =>
            /\ eng'.i_st = "SUCCESS" /\ wire'.m.exchange = "UNDEFINED"
            /\ wire'.kind = "none" /\ ti' = ti
       /\ (SpiFailed \/ KeUnsupported) =>
            /\ eng'.i_st = "FAILED" /\ wire'.m.exchange = RequestExchange
            /\ wire'.kind = "none" /\ eng'.turn = "done"
            /\ IsNull(ti'.ke)]_vars

\* C18 happens: the SPI allocation failed and build_i returned FAILED
C18_Witness ==
    /\ eng.turn = "done" /\ eng.i_handler = "build_i" /\ eng.i_st = "FAILED"
    /\ ~IsNull(ti.child_sa) /\ ti.my_spi = 0
    /\ wire.kind = "none" /\ wire.m.exchange = "CREATE_CHILD_SA"
    /\ eng.requests = 0

\* C18 happens: no plugin has the method and build_i returned FAILED
C18_WitnessKe ==
    /\ eng.turn = "done" /\ eng.i_handler = "build_i" /\ eng.i_st = "FAILED"
    /\ ti.my_spi # 0 /\ ti.ke_method = 1 /\ 1 \notin hostI.supported
    /\ IsNull(ti.ke) /\ wire.kind = "none"

\* C18 happens: no nonce, no message, SUCCESS
C18_WitnessNonce ==
    /\ eng.turn = "done" /\ eng.i_handler = "build_i" /\ eng.i_st = "SUCCESS"
    /\ ti.my_nonce = <<>> /\ wire.kind = "none" /\ wire.m.exchange = "UNDEFINED"
    /\ IsNull(ti.child_sa)

\* build_i builds the request that follows a retry: the response on the wire
\* is the one whose INVALID_KE_PAYLOAD notify made process_i retry, and no
\* collaborator fails in this build
RetryBuild ==
    /\ eng.turn = "i_build" /\ eng'.turn # "i_build"
    /\ ti.build = "build_i" /\ ti.retry
    /\ wire.kind = "resp" /\ eng.i_handler = "process_i" /\ eng.i_st = "NEED_MORE"
    /\ eng'.faults = eng.faults

\* the proposals of the task's configuration that have the method
Containing(alg) ==
    {i \in 1..Len(Deref(ti.config).proposals) :
        HasTransform(Deref(ti.config).proposals[i], KEY_EXCHANGE_METHOD, alg)}

\* the request has the proposals of the configuration, those with the
\* method first and with the method at the front, and a KE payload for it
RequestFor(alg) ==
    /\ eng'.i_st = "NEED_MORE" /\ wire'.kind = "req"
    /\ ti'.ke_method = alg
    /\ wire'.m.ke = <<KePayload(alg, "i", TRUE)>>
    /\ Let(Deref(wire'.m.sa), LAMBDA sa :
           /\ Len(sa) = Len(Deref(ti.config).proposals)
           /\ \A i \in 1..Len(sa) :
                 /\ i <= Cardinality(Containing(alg)) =>
                       GetAlgorithm(sa[i], KEY_EXCHANGE_METHOD) = alg
                 /\ i > Cardinality(Containing(alg)) =>
                       ~HasTransform(sa[i], KEY_EXCHANGE_METHOD, alg)
                 /\ \E j \in 1..Len(sa) :
                       /\ Range(sa[i].tf[KEY_EXCHANGE_METHOD])
                            = Range(Deref(ti.config).proposals[j].tf[KEY_EXCHANGE_METHOD])
                       /\ Len(sa[i].tf[KEY_EXCHANGE_METHOD])
                            = Len(Deref(ti.config).proposals[j].tf[KEY_EXCHANGE_METHOD]))

\* C17 as stated: the request built after a retry has the method of the
\* notify as its primary method: promoted, the proposals with it first, and
\* a KE payload for it; build_i returns FAILED if no proposal has it
C17_AsStated ==
    [][RetryBuild =>
          Let(Suggested(FirstActedOn), LAMBDA alg :
              IF Containing(alg) # {} THEN RequestFor(alg)
              ELSE eng'.i_st = "FAILED")]_vars

\* C17 for a notify that has a method (two bytes, not NONE)
C17_WithMethod ==
    [][(RetryBuild /\ Suggested(FirstActedOn) # KE_NONE) =>
          Let(Suggested(FirstActedOn), LAMBDA alg :
              IF Containing(alg) # {} THEN RequestFor(alg)
              ELSE eng'.i_st = "FAILED" /\ wire'.kind = "none")]_vars

\* C17 fails: the notify had no method, the request of the retry offers
\* method 1 and has no KE payload
C17_Witness ==
    /\ eng.turn = "r_process" /\ eng.i_handler = "build_i" /\ eng.i_st = "NEED_MORE"
    /\ ti.retry /\ ti.ke_method = KE_NONE
    /\ wire.kind = "req" /\ wire.m.ke = <<>>
    /\ GetAlgorithm(Deref(wire.m.sa)[1], KEY_EXCHANGE_METHOD) = 1
    /\ ~HasTransform(Deref(wire.m.sa)[1], KEY_EXCHANGE_METHOD, KE_NONE)

\* C17 holds for a notify with method 2: the second proposal is sent first
\* with method 2 at its front
C17_WitnessPromoted ==
    /\ eng.turn = "r_process" /\ eng.i_handler = "build_i" /\ eng.i_st = "NEED_MORE"
    /\ ti.retry /\ ti.ke_method = 2 /\ ti.config = Ptr(CfgList)
    /\ wire.kind = "req" /\ wire.m.ke = <<KePayload(2, "i", TRUE)>>
    /\ Deref(wire.m.sa)[1].tf[KEY_EXCHANGE_METHOD] = <<2, 1>>
    /\ Deref(wire.m.sa)[2].tf[KEY_EXCHANGE_METHOD] = <<1>>

\* the references of reqid r the kernel has from the tasks of hostI: from
\* the task while it lives and from the tasks it queued
Held(r) ==
    (IF eng.turn # "done" /\ ti.child.reqid = r THEN 1 ELSE 0)
    + Cardinality({i \in 1..Len(hostI.queued) : hostI.queued[i].child.reqid = r})

\* C20: after any sequence of use_reqid calls the kernel holds one
\* reference of the task, for the reqid the task has, and none once the
\* task is destroyed (a task it queued holds its own): every ref_reqid that
\* succeeded is matched by one release_reqid.  A use_reqid(r) whose
\* ref_reqid fails changes neither the task nor the references;
\* use_reqid(0) releases the reqid the task had and leaves it without one;
\* a use_reqid(r) that succeeds releases the previous reqid and holds r.
C20_ReqidRefsBalance ==
    /\ \A r \in 1..MaxReqid : hostI.reqid_refs[r] = Held(r)
    /\ eng.turn = "configure" =>
          \A r \in 0..MaxReqid, fresh \in BOOLEAN :
             Let(use_reqid(ti, hostI, r, fresh), LAMBDA u :
               Let(ti.child.reqid, LAMBDA prev :
                 IF r # 0 /\ hostI.reqid_refs[r] = 0 /\ ~fresh
                 THEN u.t = ti /\ u.x = hostI
                 ELSE /\ u.t.child.reqid = r
                      /\ \A q \in 1..MaxReqid :
                            u.x.reqid_refs[q] = IF q = r THEN 1 ELSE 0))

\* C20 happens: the task had reqid 1, a use_reqid for another reqid failed
\* or not, the task was queued, has built its request and was destroyed
\* with no reference left
C20_Witness ==
    /\ eng.turn = "done" /\ eng.i_handler = "build_i"
    /\ ti.child.reqid = MaxReqid
    /\ hostI.queued = <<>>
    /\ \A r \in 1..MaxReqid : hostI.reqid_refs[r] = 0

\* C20 happens: the task holds a reqid and its creator may call use_reqid
\* again
C20_WitnessAgain ==
    /\ eng.turn = "configure" /\ ti.child.reqid = 1
    /\ hostI.reqid_refs[1] = 1 /\ hostI.reqid_refs[MaxReqid] = 0

\* the CHILD_SA objects a task has that the IKE_SA does not: none once the
\* task is destroyed
Owned(t, live) == IF live /\ ~IsNull(t.child_sa) /\ ~t.established THEN 1 ELSE 0

\* the IKE_SA has the CHILD_SA of the task, once, as the last one added
HandedOver(t, x) ==
    /\ ~IsNull(t.child_sa)
    /\ Len(x.child_sas) = 1
    /\ x.child_sas[1] = Deref(t.child_sa)
    /\ x.child_sas[1].state = "INSTALLED"

\* C21: every CHILD_SA object a task created is either destroyed by the
\* task, once (in destroy, migrate or delete_failed_sa), or held by the
\* IKE_SA, or still with the living task: none is destroyed twice, none
\* that was added to the IKE_SA is destroyed, none is lost.  The IKE_SA has
\* the CHILD_SA of a task exactly if the task is established, has it once
\* and in state INSTALLED.
C21_ChildSaOwnedOnce ==
    /\ hostI.created = hostI.destroyed + Len(hostI.child_sas)
                           + Owned(ti, eng.turn # "done")
    /\ hostR.created = hostR.destroyed + Len(hostR.child_sas)
                           + Owned(tr, eng.r_active)
    /\ IF ti.established THEN HandedOver(ti, hostI) ELSE Len(hostI.child_sas) = 0
    /\ IF tr.established THEN HandedOver(tr, hostR) ELSE Len(hostR.child_sas) = 0

\* C21 happens: the initiating task destroyed its first CHILD_SA when it
\* migrated for the retry and handed the second one to the IKE_SA
C21_Witness ==
    /\ eng.turn = "done" /\ ti.established /\ ti.retry
    /\ hostI.created = 2 /\ hostI.destroyed = 1 /\ Len(hostI.child_sas) = 1

\* C21 happens: the install failed and delete_failed_sa destroyed the
\* CHILD_SA, which the destruction of the task then finds gone
C21_WitnessFailed ==
    /\ eng.turn = "done" /\ eng.i_handler = "build_i_delete"
    /\ hostI.created = 1 /\ hostI.destroyed = 1
    /\ Len(hostI.installs) = 1

\* C21 happens: the responding task failed after it created the CHILD_SA
C21_WitnessR ==
    /\ ~eng.r_active /\ eng.r_st = "SUCCESS" /\ ~tr.established
    /\ hostR.created = 1 /\ hostR.destroyed = 1

\* the secret of a key exchange is that of its method and its two parties,
\* whoever of them computes it
SharedSecret(ke) == [method |-> ke.method, parties |-> {ke.owner, ke.peer}]

\* the keys of one direction: what they are derived from
KeysOf(k) ==
    [dir |-> k.dir, secrets |-> [j \in 1..Len(k.kes) |-> SharedSecret(k.kes[j])],
     nonce_i |-> k.nonce_i, nonce_r |-> k.nonce_r]

\* a negotiation between two tasks of this implementation is complete: both
\* have their CHILD_SA installed
BothInstalled ==
    /\ eng.peer = "honest" /\ eng.turn = "done"
    /\ ti.established /\ tr.established

LastInstall(x) == x.installs[Len(x.installs)]

\* C22: when a negotiation between an initiating and a responding task is
\* complete, the SAs mirror each other: the initiator's (my_spi, other_spi)
\* is the responder's (other_spi, my_spi), the inbound SA of each side has
\* the SPI and the keys of the other side's outbound SA, and both derived
\* the keys from the same secrets with the initiator's nonce first and the
\* responder's second.
C22_InstalledSasMirror ==
    BothInstalled =>
        Let(LastInstall(hostI), LAMBDA i :
        Let(LastInstall(hostR), LAMBDA r :
            /\ i.status = "SUCCESS" /\ r.status = "SUCCESS"
            /\ ti.my_spi = tr.other_spi /\ ti.other_spi = tr.my_spi
            /\ i.in_spi = r.out_spi /\ i.out_spi = r.in_spi
            /\ i.in_spi = ti.my_spi /\ r.in_spi = tr.my_spi
            /\ KeysOf(i.in_keys) = KeysOf(r.out_keys)
            /\ KeysOf(i.out_keys) = KeysOf(r.in_keys)
            /\ i.in_keys.dir # i.out_keys.dir
            /\ \A k \in {i.in_keys, i.out_keys, r.in_keys, r.out_keys} :
                  /\ k.nonce_i = ti.my_nonce
                  /\ k.nonce_r = tr.my_nonce
                  /\ \A j \in 1..Len(k.kes) : k.kes[j].peer # "none"))

\* C22 happens: a CREATE_CHILD_SA exchange and one IKE_FOLLOWUP_KE exchange,
\* four messages, with a key exchange and an additional one, and SPIs and
\* nonces that differ between the two sides
C22_Witness ==
    /\ BothInstalled
    /\ eng.exchange = "CREATE_CHILD_SA" /\ eng.requests = 2
    /\ Len(LastInstall(hostI).kes) = 2 /\ Len(LastInstall(hostR).kes) = 2
    /\ ti.my_spi # tr.my_spi
    /\ ti.my_nonce # tr.my_nonce

\* the number of additional key exchanges of a proposal
AdditionalCount(p) ==
    Cardinality({t \in KeTypes : t # KEY_EXCHANGE_METHOD /\ HasAlgorithm(p, t)})

\* the responding task has built the response of its last round, in which
\* it installs
LastRoundBuiltR ==
    /\ ~eng.r_active
    /\ eng.r_handler \in {"build_r", "build_r_multi_ke"}
    /\ tr.ke_index = PlanSize(tr.key_exchanges)

\* a round of the responder or of the initiator that completes a key
\* exchange which is not the last one of the plan; the responder's response
\* is not an error
EarlierRoundR ==
    /\ eng.turn = "r_build" /\ eng'.turn # "r_build"
    /\ tr'.ke_index = tr.ke_index + 1
    /\ tr'.ke_index < PlanSize(tr'.key_exchanges)
    /\ \A j \in 1..Len(wire'.m.notifies) : wire'.m.notifies[j].type > LAST_ERROR_NOTIFY

EarlierRoundI ==
    /\ eng.turn = "i_process" /\ eng'.turn # "i_process"
    /\ ti'.ke_index = ti.ke_index + 1
    /\ ti'.ke_index < PlanSize(ti'.key_exchanges)

\* C23 as stated: install_child_sa runs for a selected proposal of k >= 1
\* additional key exchanges only once k + 1 key exchanges are complete, that
\* is in the k-th IKE_FOLLOWUP_KE round, and on the initiator only after
\* the responder has installed.
C23_AsStated ==
    /\ \A a \in Attempts :
          AdditionalCount(a.proposal) >= 1 =>
             Len(a.kes) = AdditionalCount(a.proposal) + 1
    /\ (/\ eng.peer = "honest"
        /\ \E j \in 1..Len(hostI.installs) :
               AdditionalCount(hostI.installs[j].proposal) >= 1) => LastRoundBuiltR

\* C23 fails: install_child_sa ran for a proposal with an additional key
\* exchange in the first round, with no key exchange made at all
C23_Witness ==
    \E a \in Attempts :
        /\ AdditionalCount(a.proposal) >= 1
        /\ a.kes = <<>> /\ a.status = "SUCCESS"

\* where the plan has the additional key exchanges of the proposal and the
\* task made a key exchange, C23 is as stated, and the rounds before the
\* last one return NEED_MORE and install nothing
C23_WithKeyExchange ==
    /\ \A a \in Attempts :
          (PlanSize(a.plan) >= 2 /\ a.kes # <<>>) => Len(a.kes) = PlanSize(a.plan)
    /\ (/\ eng.peer = "honest"
        /\ \E j \in 1..Len(hostI.installs) :
               PlanSize(hostI.installs[j].plan) >= 2) => LastRoundBuiltR

C23_EarlierRounds ==
    [][/\ EarlierRoundR => /\ eng'.r_st = "NEED_MORE"
                           /\ hostR'.installs = hostR.installs
       /\ EarlierRoundI => /\ eng'.i_st = "NEED_MORE"
                           /\ hostI'.installs = hostI.installs]_vars

\* the key exchange plan of a task is well formed
PlanWellFormed(t) ==
    Let(t.key_exchanges, LAMBDA kx :
    Let(PlanSize(kx), LAMBDA n :
        /\ kx[0].type = 0 => \A s \in Slots : kx[s] = NoKeyExchange
        /\ kx[0].type # 0 => kx[0].type = KEY_EXCHANGE_METHOD
        /\ \A s \in Slots : kx[s].type # 0 <=> s < n
        /\ \A s \in Slots :
              (s >= 1 /\ s < n) =>
                 /\ kx[s].type >= ADDITIONAL_KEY_EXCHANGE_1
                 /\ kx[s].type <= ADDITIONAL_KEY_EXCHANGE_7
                 /\ kx[s - 1].type < kx[s].type
        /\ t.ke_index = Len(t.kes)
        /\ \A s \in Slots : kx[s].done <=> s < t.ke_index
        /\ t.ke_index <= n
        /\ n <= MAX_KEY_EXCHANGES))

\* C24: in every reachable state the plan of either task is well formed:
\* slot 0 is empty, and then all slots are, or holds KEY_EXCHANGE_METHOD;
\* the additional key exchanges fill the slots 1..k in ascending order of
\* their transform type; ke_index is the number of completed sessions, done
\* is set on exactly the slots below ke_index, and ke_index is at most the
\* number of used slots, which is at most 8.
C24_PlanWellFormed ==
    /\ PlanWellFormed(ti)
    /\ PlanWellFormed(tr)
    /\ \A j \in 1..Len(hostI.queued) : PlanWellFormed(hostI.queued[j])

\* C24 happens: a plan of three key exchanges made from a proposal with a
\* gap in its additional transform types, two of them complete
C24_Witness ==
    /\ PlanSize(tr.key_exchanges) = 3 /\ tr.ke_index = 2
    /\ tr.key_exchanges[2].type = ADDITIONAL_KEY_EXCHANGE_1 + 2
    /\ tr.key_exchanges[1].done /\ ~tr.key_exchanges[2].done

\* C24 happens: the plan of the initiating task is complete
C24_WitnessDone ==
    /\ PlanSize(ti.key_exchanges) = 2 /\ ti.ke_index = 2 /\ ti.established

(***************************************************************************)
(* The mode of the CHILD_SA: configurations for transport and BEET mode,   *)
(* with and without OPT_PROXY_MODE and one with IPComp, an initiator that  *)
(* may be behind a NAT (the responder sees it as host 3), and a peer that  *)
(* answers with any mode, selectors and IPComp transform.                  *)
(***************************************************************************)
ModeConfigs ==
    {CfgPfs,
     [CfgPfs EXCEPT !.name = "transport", !.mode = "TRANSPORT", !.dynamic_ts = TRUE],
     [CfgPfs EXCEPT !.name = "subnets", !.mode = "TRANSPORT"],
     [CfgPfs EXCEPT !.name = "proxy", !.mode = "TRANSPORT", !.proxy = TRUE],
     [CfgPfs EXCEPT !.name = "beet", !.mode = "BEET", !.dynamic_ts = TRUE],
     [CfgHybrid EXCEPT !.name = "hybrid-subnets", !.mode = "TRANSPORT"],
     CfgComp}

InitMode ==
    \E peer \in {"honest", "forged_r"},
       cfg \in ModeConfigs, cfg_r \in {NULL} \cup {Ptr(c) : c \in ModeConfigs},
       exchange \in {"IKE_AUTH", "CREATE_CHILD_SA"}, rekey \in BOOLEAN,
       ext \in BOOLEAN, nat \in BOOLEAN :
        /\ exchange = "IKE_AUTH" => ~rekey
        /\ (peer = "forged_r") <=> (cfg_r = NULL)
        /\ ti = WithInitNonces(child_create_create(Ptr(cfg), rekey, NULL, NULL), exchange,
                               <<0, 1>>, <<1, 0>>)
        /\ tr = WithInitNonces(child_create_create(NULL, rekey, NULL, NULL), exchange,
                               <<1, 0>>, <<0, 1>>)
        /\ hostI = [Host(1, 2) EXCEPT !.ext_strongswan = ext, !.nat_here = nat]
        /\ hostR = [Host(2, IF nat THEN 3 ELSE 1) EXCEPT !.ext_strongswan = ext,
                                                         !.nat_there = nat]
        /\ wire = Wire("none", Message("NONE"))
        /\ eng = Engine(peer, exchange, rekey, cfg_r)
        /\ lower = NULL

\* a peer that is not this implementation answers the request with the
\* selectors and the mode it likes
ModeResponse ==
    /\ eng.turn = "r_process"
    /\ eng.peer = "forged_r"
    /\ \E tsi \in {<<Ts(0, 0)>>, <<Ts(1, 0)>>, <<Ts(2, 0)>>, <<Ts(1, 0), Ts(0, 0)>>},
          tsr \in {<<Ts(0, 0)>>, <<Ts(1, 0)>>, <<Ts(2, 0)>>},
          ns \in {<<>>, <<Notify(USE_TRANSPORT_MODE, <<>>)>>,
                  <<Notify(USE_BEET_MODE, <<>>)>>,
                  <<Notify(IPCOMP_SUPPORTED, IpcompData(1, IPCOMP_DEFLATE))>>,
                  <<Notify(IPCOMP_SUPPORTED, IpcompData(1, IPCOMP_LZS))>>,
                  <<Notify(INVALID_SYNTAX, <<>>)>>,
                  <<Notify(LAST_ERROR_NOTIFY + 1, <<>>)>>} :
        Let(wire.m.exchange = "IKE_AUTH", LAMBDA auth :
            /\ wire' = Wire("resp",
                    [Message(wire.m.exchange) EXCEPT
                        !.sa = Ptr(<<Proposal(1, 2, IF auth THEN <<>>
                                                    ELSE KEY_EXCHANGE_METHOD :> <<1>>)>>),
                        !.nonce = Ptr(<<1, 0>>),
                        !.ke = IF auth THEN <<>> ELSE <<KePayload(1, "r", TRUE)>>,
                        !.tsi = Ptr(tsi), !.tsr = Ptr(tsr), !.notifies = ns])
            /\ eng' = [eng EXCEPT !.turn = "i_process", !.forged = @ + 1])
    /\ UNCHANGED <<ti, tr, hostI, hostR, lower>>

NextMode ==
    \/ InitiatorBuild
    \/ ResponderProcess
    \/ ResponderBuild
    \/ InitiatorProcess
    \/ ModeResponse

SpecMode == InitMode /\ [][NextMode]_vars

\* the configuration of a CHILD_SA
ConfigOf(child) == CHOOSE c \in ModeConfigs : c.name = child.config

\* what check_mode accepts: the selectors of the mode for the IKE endpoints
ModeAccepted(child, x) ==
    Let(ConfigOf(child), LAMBDA cfg :
        /\ child.mode = "TRANSPORT" =>
              /\ cfg.mode = "TRANSPORT"
              /\ \/ cfg.proxy
                 \/ /\ \A j \in 1..Len(child.my_ts) : child.my_ts[j].host = x.me
                    /\ \A j \in 1..Len(child.other_ts) : child.other_ts[j].host = x.other
        /\ child.mode = "BEET" =>
              /\ cfg.mode = "BEET"
              /\ \A j \in 1..Len(child.my_ts) : child.my_ts[j].host # 0
              /\ \A j \in 1..Len(child.other_ts) : child.other_ts[j].host # 0)

\* C25: a CHILD_SA installed in TRANSPORT mode has a configuration of mode
\* TRANSPORT and, unless OPT_PROXY_MODE is set, only single-host selectors
\* for the IKE endpoints on either side; one installed in BEET mode has a
\* configuration of mode BEET and only single-host selectors.
C25_InstalledModeAccepted ==
    /\ \A j \in 1..Len(hostI.child_sas) : ModeAccepted(hostI.child_sas[j], hostI)
    /\ \A j \in 1..Len(hostR.child_sas) : ModeAccepted(hostR.child_sas[j], hostR)
    /\ (ti.established /\ ~IsNull(ti.child_sa)) => ModeAccepted(Deref(ti.child_sa), hostI)
    /\ (tr.established /\ ~IsNull(tr.child_sa)) => ModeAccepted(Deref(tr.child_sa), hostR)

\* C25 happens: both peers installed a transport mode CHILD_SA between the
\* hosts behind a NAT
C25_Witness ==
    /\ Len(hostI.child_sas) = 1 /\ Len(hostR.child_sas) = 1
    /\ hostI.child_sas[1].mode = "TRANSPORT" /\ hostR.child_sas[1].mode = "TRANSPORT"
    /\ hostI.nat_here /\ ~ConfigOf(hostI.child_sas[1]).proxy

\* C25 happens: transport mode with OPT_PROXY_MODE and a selector that is
\* no host
C25_WitnessProxy ==
    /\ Len(hostR.child_sas) = 1
    /\ hostR.child_sas[1].mode = "TRANSPORT"
    /\ hostR.child_sas[1].my_ts[1].host = 0

\* C25 happens: a BEET mode CHILD_SA
C25_WitnessBeet ==
    /\ Len(hostI.child_sas) = 1 /\ hostI.child_sas[1].mode = "BEET"
    /\ Len(hostR.child_sas) = 1 /\ hostR.child_sas[1].mode = "BEET"

\* the initiating task holds a mode the responder indicated and selectors
\* that fail the mode acceptance check
RejectedI ==
    /\ ~IsNull(ti.tsi) /\ ~IsNull(ti.tsr)
    /\ ti.mode \in {"TRANSPORT", "BEET"}
    /\ ~check_mode(ti, hostI.me, hostI.other)

\* the initiating task processes the response to its first request
FirstResponseI == eng.turn = "i_process" /\ ti.process = "process_i"

\* C26 as stated: as initiator, if the mode the responder indicated fails
\* the mode acceptance check, the task fails with status FAILED and no
\* CHILD_SA is installed.
C26_AsStated ==
    [][(FirstResponseI /\ RejectedI') =>
          /\ eng'.i_st = "FAILED"
          /\ hostI'.installs = hostI.installs
          /\ hostI'.child_sas = hostI.child_sas]_vars

\* C26 amended: as initiator, if the mode the responder indicated fails the
\* mode acceptance check, no CHILD_SA is installed, the task destroys its
\* CHILD_SA object, switches to the DELETE builder and returns NEED_MORE.
C26_RejectedModeDeletes ==
    [][(FirstResponseI /\ RejectedI') =>
          /\ eng'.i_st = "NEED_MORE"
          /\ ti'.build = "build_i_delete"
          /\ IsNull(ti'.child_sa) /\ ~ti'.established
          /\ hostI'.installs = hostI.installs
          /\ hostI'.child_sas = hostI.child_sas
          /\ hostI'.destroyed = hostI.destroyed + 1]_vars

\* C26 happens: the responder indicated transport mode for selectors that
\* are not those of the hosts, and the task has handled it
C26_Witness ==
    /\ eng.i_handler = "process_i" /\ eng.turn = "i_build"
    /\ RejectedI
    /\ Deref(ti.config).mode = "TRANSPORT" /\ ti.mode = "TRANSPORT"
    /\ HasNotify(wire.m, USE_TRANSPORT_MODE)

\* C26 happens: the responder indicated a mode the configuration has not
C26_WitnessBeet ==
    /\ eng.i_handler = "process_i" /\ eng.turn = "i_build"
    /\ RejectedI
    /\ Deref(ti.config).mode = "TUNNEL" /\ ti.mode = "BEET"

\* the responding task builds the response to the first request
FirstResponseR == eng.turn = "r_build" /\ tr.build = "build_r"

\* the request asked for a mode, the response goes on with the negotiation,
\* and the narrowed selectors fail the mode acceptance check for that mode
RejectedR ==
    /\ tr.mode \in {"TRANSPORT", "BEET"}
    /\ ~IsNull(wire'.m.sa)
    /\ ~check_mode([tr' EXCEPT !.mode = tr.mode], hostR.other, hostR.me)

ModeNotifies(m) ==
    {j \in 1..Len(m.notifies) :
        m.notifies[j].type \in {USE_TRANSPORT_MODE, USE_BEET_MODE}}

\* the CHILD_SAs the responder installs in this step
InstalledNowR ==
    {hostR'.child_sas[j] : j \in (Len(hostR.child_sas) + 1)..Len(hostR'.child_sas)}

\* C27: as responder, if the requested TRANSPORT or BEET mode fails the mode
\* acceptance check, the negotiation goes on: the mode becomes TUNNEL, the
\* response carries no USE_TRANSPORT_MODE or USE_BEET_MODE notify, and the
\* CHILD_SA is installed in TUNNEL mode, in this round when the key
\* exchanges are complete and the installation succeeds, or in a later one,
\* which leaves the mode as it is.
C27_ResponderDowngrades ==
    [][/\ (FirstResponseR /\ RejectedR) =>
             /\ tr'.mode = "TUNNEL"
             /\ ModeNotifies(wire'.m) = {}
             /\ \A c \in InstalledNowR : c.mode = "TUNNEL"
             /\ (\A j \in 1..Len(wire'.m.notifies) :
                     wire'.m.notifies[j].type > LAST_ERROR_NOTIFY) =>
                   \/ eng'.r_st = "NEED_MORE" /\ tr'.build = "build_r_multi_ke"
                   \/ /\ eng'.r_st = "SUCCESS" /\ tr'.established
                      /\ InstalledNowR = {Deref(tr'.child_sa)}
       /\ (eng.turn = "r_build" /\ tr.build = "build_r_multi_ke") =>
             /\ tr'.mode = tr.mode
             /\ \A c \in InstalledNowR : c.mode = tr.mode]_vars

\* C27 happens: transport mode was requested for selectors that are no
\* hosts, and the responder installed the CHILD_SA in tunnel mode
C27_Witness ==
    /\ eng.peer = "honest" /\ eng.turn = "i_process"
    /\ eng.r_handler = "build_r" /\ eng.r_st = "SUCCESS"
    /\ Deref(ti.config).mode = "TRANSPORT"
    /\ ~IsNull(tr.config) /\ Deref(tr.config).mode = "TRANSPORT"
    /\ Len(hostR.child_sas) = 1 /\ hostR.child_sas[1].mode = "TUNNEL"
    /\ hostR.child_sas[1].my_ts[1].host = 0
    /\ ModeNotifies(wire.m) = {}

\* C27 happens: the same with the installation in a later round
C27_WitnessLater ==
    /\ eng.peer = "honest" /\ eng.turn = "i_process"
    /\ eng.r_handler = "build_r_multi_ke" /\ eng.r_st = "SUCCESS"
    /\ Deref(ti.config).mode = "TRANSPORT"
    /\ ~IsNull(tr.config) /\ Deref(tr.config).mode = "TRANSPORT"
    /\ Len(hostR.child_sas) = 1 /\ hostR.child_sas[1].mode = "TUNNEL"

\* the runs of install_child_sa of a step on a host
NewAttempts(x, y) == {y.installs[j] : j \in (Len(x.installs) + 1)..Len(y.installs)}

\* the SAs of a run were derived and installed
SadInstalled(a) == a.derived /\ a.status_i = "SUCCESS" /\ a.status_o = "SUCCESS"

\* status and alert of a run of install_child_sa follow what failed
StatusFollows(a) ==
    /\ a.status = "FAILED" <=> ~SadInstalled(a)
    /\ a.alert = "ALERT_INSTALL_CHILD_SA_FAILED" <=> ~SadInstalled(a)
    /\ (SadInstalled(a) /\ a.status_p # "SUCCESS") =>
          a.status = "NOT_FOUND" /\ a.alert = "ALERT_INSTALL_CHILD_POLICY_FAILED"
    /\ a.status # "SUCCESS" => a.alert # "none"

\* a failed run of a step leaves the task and the IKE_SA without the CHILD_SA
FailedRunLeaves(t, x, y) ==
    \A a \in NewAttempts(x, y) :
        a.status # "SUCCESS" =>
            /\ ~t.established
            /\ y.child_sas = x.child_sas
            /\ IsNull(t.child_sa) \/ Deref(t.child_sa).state # "INSTALLED"

\* C28: install_child_sa returns FAILED and raises
\* ALERT_INSTALL_CHILD_SA_FAILED exactly when the key derivation, the
\* inbound or the outbound SA fails; it returns NOT_FOUND and raises
\* ALERT_INSTALL_CHILD_POLICY_FAILED when the SAs were installed and the
\* policies failed; in both cases established stays FALSE, the state is not
\* INSTALLED and the CHILD_SA is not added to the IKE_SA.
C28_InstallFailureStatus ==
    [][/\ \A a \in NewAttempts(hostI, hostI') \cup NewAttempts(hostR, hostR') :
              StatusFollows(a)
       /\ FailedRunLeaves(ti', hostI, hostI')
       /\ FailedRunLeaves(tr', hostR, hostR')]_vars

\* C28 happens: the outbound SA of the initiator failed
C28_Witness ==
    /\ Len(hostI.installs) > 0
    /\ LastInstall(hostI).status_i = "SUCCESS"
    /\ LastInstall(hostI).status_o = "FAILED"
    /\ LastInstall(hostI).status = "FAILED"

\* C28 happens: the policies of the responder failed
C28_WitnessPolicy ==
    /\ Len(hostR.installs) > 0
    /\ LastInstall(hostR).status_p = "FAILED"
    /\ LastInstall(hostR).status = "NOT_FOUND"
    /\ ~tr.established

\* C28 happens: the key derivation failed
C28_WitnessDerive ==
    /\ Len(hostR.installs) > 0
    /\ ~LastInstall(hostR).derived
    /\ LastInstall(hostR).status = "FAILED"

\* install_child_sa of the initiating task does not return SUCCESS in this
\* step
InstallFailsI ==
    /\ eng.turn = "i_process"
    /\ \E a \in NewAttempts(hostI, hostI') : a.status # "SUCCESS"

\* the build after a failed installation of the initiating task
BuildAfterFailedInstallI ==
    /\ eng.turn = "i_build" /\ eng.i_handler \in {"process_i", "process_i_multi_ke"}
    /\ Len(hostI.installs) > 0 /\ LastInstall(hostI).status # "SUCCESS"

\* C29: as initiator, whenever install_child_sa does not return SUCCESS, in
\* the first round or in a multi-KE round, the task switches its build to the
\* DELETE builder and destroys its CHILD_SA object, process returns
\* NEED_MORE, and the next build emits an INFORMATIONAL message with a DELETE
\* for the protocol and my_spi of the failed CHILD_SA and returns SUCCESS.
C29_FailedInstallDeletes ==
    [][/\ InstallFailsI =>
             /\ ti'.build = "build_i_delete"
             /\ ~IsNull(ti.child_sa) /\ IsNull(ti'.child_sa)
             /\ hostI'.destroyed = hostI.destroyed + 1
             /\ eng'.i_st = "NEED_MORE" /\ eng'.turn = "i_build"
       /\ BuildAfterFailedInstallI =>
             /\ ti.build = "build_i_delete"
             /\ wire'.kind = "req"
             /\ wire'.m.exchange = "INFORMATIONAL"
             /\ wire'.m.del = <<[protocol |-> LastInstall(hostI).proposal.protocol,
                                 spi |-> LastInstall(hostI).in_spi]>>
             /\ eng'.i_st = "SUCCESS"]_vars

\* C29 happens: the DELETE after a failed installation in the first round
C29_Witness ==
    /\ eng.i_handler = "build_i_delete" /\ eng.i_st = "SUCCESS"
    /\ wire.m.exchange = "INFORMATIONAL" /\ Len(wire.m.del) = 1
    /\ Len(hostI.installs) > 0 /\ LastInstall(hostI).status = "NOT_FOUND"
    /\ Len(LastInstall(hostI).kes) = 1

\* C29 happens: the DELETE after a failed installation in a multi-KE round
C29_WitnessMultiKe ==
    /\ eng.i_handler = "build_i_delete" /\ eng.i_st = "SUCCESS"
    /\ wire.m.exchange = "INFORMATIONAL" /\ Len(wire.m.del) = 1
    /\ Len(hostI.installs) > 0 /\ LastInstall(hostI).status = "FAILED"
    /\ Len(LastInstall(hostI).kes) = 2

\* the calls a run of install_child_sa made for the SAs are those of the task
SaCalls(a, t) ==
    a.derived =>
        /\ a.in_op /\ a.in_spi = t.my_spi /\ a.in_cpi = t.my_cpi
        /\ a.out_spi = t.other_spi /\ a.out_cpi = t.other_cpi
        /\ a.out_op = IF t.rekey THEN "register" ELSE "install"

\* C30: install_child_sa of a rekey task only registers the outbound SA and
\* never installs it; that of any other task installs the outbound SA at
\* once with (other_spi, other_cpi); either installs the inbound SA with
\* (my_spi, my_cpi).
C30_OutboundRegisteredOnRekey ==
    [][/\ \A a \in NewAttempts(hostI, hostI') : SaCalls(a, ti')
       /\ \A a \in NewAttempts(hostR, hostR') : SaCalls(a, tr')]_vars

\* C30 happens: a rekey task registered the outbound SA of a CHILD_SA with
\* IPComp
C30_Witness ==
    /\ Len(hostR.installs) > 0
    /\ LastInstall(hostR).rekey /\ LastInstall(hostR).out_op = "register"
    /\ LastInstall(hostR).out_cpi # 0 /\ LastInstall(hostR).in_cpi # 0
    /\ LastInstall(hostR).status = "SUCCESS"

\* C30 happens: another task installed it
C30_WitnessInstall ==
    /\ Len(hostI.installs) > 0
    /\ ~LastInstall(hostI).rekey /\ LastInstall(hostI).out_op = "install"
    /\ LastInstall(hostI).out_cpi # 0 /\ LastInstall(hostI).in_cpi # 0
    /\ LastInstall(hostI).in_spi # LastInstall(hostI).out_spi

\* the IPComp transforms the IPCOMP_SUPPORTED notifies of a message name
IpcompChosen(m) ==
    {m.notifies[j].data[3] : j \in {i \in 1..Len(m.notifies) :
                                       m.notifies[i].type = IPCOMP_SUPPORTED}}

\* the initiating task has selected a proposal of the response
SelectedI == FirstResponseI /\ ~IsNull(ti'.proposal)

\* the initiating task abandons the CHILD_SA in this step
AbandonsI ==
    /\ ti'.build = "build_i_delete" /\ IsNull(ti'.child_sa)
    /\ ~ti'.established /\ hostI'.installs = hostI.installs

\* C31, the cases of an accepted transform that was not proposed and of no
\* acceptable transform: the first abandons the CHILD_SA, the second goes
\* on without IPComp.
C31_OtherCases ==
    [][SelectedI =>
          /\ (ti.ipcomp = IPCOMP_NONE /\ IPCOMP_DEFLATE \in IpcompChosen(wire.m))
                => AbandonsI
          /\ (ti.ipcomp # IPCOMP_NONE /\ IPCOMP_DEFLATE \notin IpcompChosen(wire.m))
                => ti'.ipcomp = IPCOMP_NONE]_vars

\* C31 as stated: as initiator processing the response, if no IPComp was
\* proposed but the peer sent an accepted IPCOMP_SUPPORTED, or IPComp was
\* proposed and the peer chose a different transform, the CHILD_SA is
\* abandoned (no install, DELETE built); if IPComp was proposed and the peer
\* sent no acceptable IPCOMP_SUPPORTED, IPComp is set to NONE and the
\* negotiation continues.
C31_AsStated ==
    [][SelectedI =>
          /\ (ti.ipcomp = IPCOMP_NONE /\ IPCOMP_DEFLATE \in IpcompChosen(wire.m))
                => AbandonsI
          /\ (ti.ipcomp # IPCOMP_NONE /\ IpcompChosen(wire.m) \ {ti.ipcomp} # {})
                => AbandonsI
          /\ (ti.ipcomp # IPCOMP_NONE /\ IpcompChosen(wire.m) = {})
                => ti'.ipcomp = IPCOMP_NONE]_vars

\* C31 happens: IPComp was proposed, the peer chose another transform, and
\* the CHILD_SA is installed without IPComp
C31_Witness ==
    /\ eng.i_handler = "process_i" /\ eng.i_st = "SUCCESS"
    /\ IpcompChosen(wire.m) = {IPCOMP_LZS}
    /\ Deref(ti.config).ipcomp
    /\ ti.established /\ ti.ipcomp = IPCOMP_NONE
    /\ Len(hostI.child_sas) = 1 /\ hostI.child_sas[1].ipcomp = IPCOMP_NONE

\* C31 happens: a transform that was not proposed is answered with a DELETE
C31_WitnessNotProposed ==
    /\ eng.i_handler = "process_i" /\ eng.i_st = "NEED_MORE"
    /\ IpcompChosen(wire.m) = {IPCOMP_DEFLATE}
    /\ ~Deref(ti.config).ipcomp /\ ti.build = "build_i_delete"

\* notify types neither the scan of process_i nor handle_notify nor
\* process_link names
UnhandledType(type) ==
    type \notin ChildErrors \cup {TEMPORARY_FAILURE, INVALID_KE_PAYLOAD,
                                  USE_TRANSPORT_MODE, USE_BEET_MODE,
                                  IPCOMP_SUPPORTED, ESP_TFC_PADDING_NOT_SUPPORTED,
                                  ADDITIONAL_KEY_EXCHANGE}

\* process_i gets as far as the scan of the notifies
ScansResponseI ==
    /\ FirstResponseI
    /\ wire.m.exchange \in {"IKE_AUTH", "CREATE_CHILD_SA"}
    /\ wire.m.exchange = "IKE_AUTH" =>
          hostI.authenticated /\ defer_child_sa(ti, hostI) # "NEED_MORE"

\* the scan acts on an unhandled notify of an error type
ActsOnUnhandledError ==
    Let(ScanNotifies(wire.m, 1), LAMBDA i :
        /\ i # 0
        /\ UnhandledType(wire.m.notifies[i].type)
        /\ wire.m.notifies[i].type <= LAST_ERROR_NOTIFY)

\* the unhandled notifies the scan passes over
PassedOver(m) ==
    {j \in 1..Len(m.notifies) :
        /\ UnhandledType(m.notifies[j].type)
        /\ m.notifies[j].type > LAST_ERROR_NOTIFY \/ m.exchange = "IKE_AUTH"}

\* the message without them
WithoutPassedOver(m) ==
    [m EXCEPT !.notifies = SelectSeq(@, LAMBDA n :
         ~(UnhandledType(n.type)
           /\ (n.type > LAST_ERROR_NOTIFY \/ m.exchange = "IKE_AUTH")))]

\* the response holds an unhandled notify of an error type and no notify the
\* scan names
HoldsUnhandledError(m) ==
    /\ \E j \in 1..Len(m.notifies) :
          UnhandledType(m.notifies[j].type) /\ m.notifies[j].type <= LAST_ERROR_NOTIFY
    /\ \A j \in 1..Len(m.notifies) :
          m.notifies[j].type \notin ChildErrors \cup {TEMPORARY_FAILURE, INVALID_KE_PAYLOAD}

\* C32 as stated: as initiator, a response containing a notify of an
\* unhandled type below 16384 is treated as an error and the CHILD_SA is
\* abandoned (process returns SUCCESS without installing), in IKE_AUTH as well
\* as in CREATE_CHILD_SA.
C32_AsStated ==
    [][(ScansResponseI /\ HoldsUnhandledError(wire.m)) =>
          /\ eng'.i_st = "SUCCESS"
          /\ ~ti'.established
          /\ hostI'.installs = hostI.installs]_vars

\* C32 amended: in a CREATE_CHILD_SA response an unhandled notify of a type
\* below 16384 the scan comes to ends the task with SUCCESS, nothing
\* installed and no DELETE built; an unhandled notify of type 16384 or above,
\* and in an IKE_AUTH response one of any type, is passed over: the round
\* ends as it does for the response without these notifies.
C32_UnhandledNotifies ==
    [][ScansResponseI =>
          /\ ActsOnUnhandledError =>
                /\ wire.m.exchange = "CREATE_CHILD_SA"
                /\ eng'.i_st = "SUCCESS"
                /\ ~ti'.established /\ ti'.build = ti.build
                /\ hostI'.installs = hostI.installs
          /\ PassedOver(wire.m) # {} =>
                \E e \in EnvsInstall :
                    Let(ProcessI(ti, hostI, WithoutPassedOver(wire.m), e), LAMBDA r :
                        /\ ti' = r.t
                        /\ eng'.i_st = r.st
                        /\ hostI'.installs = r.x.installs)]_vars

\* C32 happens: the CHILD_SA of an IKE_AUTH response with an unhandled error
\* notify is installed
C32_Witness ==
    /\ eng.i_handler = "process_i" /\ eng.exchange = "IKE_AUTH"
    /\ HasNotify(wire.m, INVALID_SYNTAX)
    /\ ti.established /\ Len(hostI.child_sas) = 1

\* C32 happens: the same notify in a CREATE_CHILD_SA response ends the task
C32_WitnessChild ==
    /\ eng.i_handler = "process_i" /\ eng.exchange = "CREATE_CHILD_SA"
    /\ wire.m.notifies = <<Notify(INVALID_SYNTAX, <<>>)>> /\ ~IsNull(wire.m.sa)
    /\ eng.i_st = "SUCCESS" /\ ~ti.established /\ eng.turn = "done"

\* C32 happens: a status notify nobody handles is passed over
C32_WitnessStatus ==
    /\ eng.i_handler = "process_i" /\ eng.exchange = "CREATE_CHILD_SA"
    /\ HasNotify(wire.m, LAST_ERROR_NOTIFY + 1)
    /\ ti.established

(***************************************************************************)
(* The policy of the daemon and of the configuration: the setting          *)
(* close_ike_on_child_failure, security labels, which a configuration has  *)
(* or not, an acquire gives the task, and a peer sends with its traffic    *)
(* selectors, and IPComp, which a configuration enables and a peer asks    *)
(* for with the CPI it likes.                                              *)
(***************************************************************************)
\* a child configuration with a label in the mode SEC_LABEL_MODE_SYSTEM
CfgSystem ==
    [CfgPfs EXCEPT !.name = "system", !.label = 1, !.label_mode = "SYSTEM"]

PolicyConfigs == {CfgPfs, CfgSelinux, CfgSystem, CfgComp}

\* the labels a message can carry with its selectors (0: none)
PolicyLabels == 0..MaxLabel

\* the IPCOMP_SUPPORTED notify a peer adds to its payloads, if any
PolicyIpcomp ==
    {<<>>, <<Notify(IPCOMP_SUPPORTED, IpcompData(0, IPCOMP_DEFLATE))>>,
     <<Notify(IPCOMP_SUPPORTED, IpcompData(1, IPCOMP_DEFLATE))>>}

\* close: the setting close_ike_on_child_failure of both daemons; label: the
\* label of the acquire that made the initiating task, which the kernel has
\* from a policy with the generic SELinux label
InitPolicy ==
    \E peer \in {"honest", "forged_r", "forged_i"},
       cfg \in PolicyConfigs, cfg_r \in {NULL} \cup {Ptr(c) : c \in PolicyConfigs},
       exchange \in {"IKE_AUTH", "CREATE_CHILD_SA"}, close \in BOOLEAN,
       label \in PolicyLabels :
        /\ peer = "forged_r" => cfg_r = NULL
        /\ peer = "forged_i" => cfg = CfgPfs
        /\ label # 0 => cfg = CfgSelinux
        /\ ti = WithInitNonces(use_label(child_create_create(Ptr(cfg), FALSE, NULL, NULL),
                                         label),
                               exchange, <<0, 1>>, <<1, 0>>)
        /\ tr = WithInitNonces(child_create_create(NULL, FALSE, NULL, NULL), exchange,
                               <<1, 0>>, <<0, 1>>)
        /\ hostI = [Host(1, 2) EXCEPT !.close_ike_on_child_failure = close]
        /\ hostR = [Host(2, 1) EXCEPT !.close_ike_on_child_failure = close]
        /\ wire = Wire("none", Message("NONE"))
        /\ eng = Engine(peer, exchange, FALSE, cfg_r)
        /\ lower = NULL

\* SA, nonce, KE and TS payloads as a peer has them in a message of the
\* exchange, with the labels it likes
PolicyPayloads(exchange, from, spi, li, lr) ==
    Let(exchange = "IKE_AUTH", LAMBDA auth :
        [Message(exchange) EXCEPT
            !.sa = Ptr(<<Proposal(1, spi, IF auth THEN <<>>
                                          ELSE KEY_EXCHANGE_METHOD :> <<1>>)>>),
            !.nonce = IF auth THEN NULL
                      ELSE Ptr(IF from = "r" THEN <<1, 0>> ELSE <<0, 1>>),
            !.ke = IF auth THEN <<>> ELSE <<KePayload(1, from, TRUE)>>,
            !.tsi = Ptr(<<Ts(0, 0)>>), !.tsr = Ptr(<<Ts(0, 0)>>),
            !.label_i = li, !.label_r = lr])

\* a peer that is not this implementation answers the request, with labels
\* or IPComp, or with an error notify
PolicyResponse ==
    /\ eng.turn = "r_process"
    /\ eng.peer = "forged_r"
    /\ \E li \in PolicyLabels, lr \in PolicyLabels,
          ns \in PolicyIpcomp \cup
                 {<<Notify(TS_UNACCEPTABLE, <<>>)>>,
                  <<Notify(NO_PROPOSAL_CHOSEN, <<>>)>>,
                  <<Notify(TEMPORARY_FAILURE, <<>>)>>,
                  <<Notify(INVALID_KE_PAYLOAD, Htons16(NumMethods))>>} :
        /\ ns # <<>> => li = 0 /\ lr = 0
        /\ wire' = Wire("resp",
                IF ns \in PolicyIpcomp
                THEN [PolicyPayloads(wire.m.exchange, "r", 2, li, lr)
                         EXCEPT !.notifies = ns]
                ELSE [Message(wire.m.exchange) EXCEPT !.notifies = ns])
        /\ eng' = [eng EXCEPT !.turn = "i_process", !.forged = @ + 1]
    /\ UNCHANGED <<ti, tr, hostI, hostR, lower>>

\* a peer that is not this implementation sends its one request, with labels
\* or IPComp
PolicyRequest ==
    /\ eng.turn = "forge"
    /\ eng.forged = 0
    /\ \E li \in PolicyLabels, lr \in PolicyLabels, ns \in PolicyIpcomp :
        /\ ns # <<>> => li = 0 /\ lr = 0
        /\ wire' = Wire("req", [PolicyPayloads(eng.exchange, "i", 1, li, lr)
                                   EXCEPT !.notifies = ns])
        /\ eng' = [eng EXCEPT !.turn = "r_process", !.forged = @ + 1]
    /\ UNCHANGED <<ti, tr, hostI, hostR, lower>>

NextPolicy ==
    \/ InitiatorBuild
    \/ ResponderProcess
    \/ ResponderBuild
    \/ InitiatorProcess
    \/ PolicyResponse
    \/ PolicyRequest
    \/ Abort

SpecPolicy == InitPolicy /\ [][NextPolicy]_vars

\* a handler of the task that handles CHILD_SA failures ran on the host: it
\* processed the response or built the response
HandlesI == eng.turn = "i_process" /\ eng'.turn # "i_process"
HandlesR == eng.turn = "r_build" /\ eng'.turn # "r_build"

\* the step scheduled a job that deletes the IKE_SA of the host
Scheduled(x, y) == y.delete_jobs # x.delete_jobs

C33_WitnessCreateChild ==
    /\ eng.i_handler = "process_i" /\ eng.exchange = "CREATE_CHILD_SA"
    /\ wire.kind = "resp" /\ HasNotify(wire.m, TS_UNACCEPTABLE)
    /\ hostI.close_ike_on_child_failure /\ hostI.delete_jobs = 0
    /\ hostI.alerts = 1

\* C33 happens: the responder found no configuration for the IKE_AUTH
\* request and scheduled the job
C33_WitnessResponder ==
    /\ eng.r_handler = "build_r" /\ eng.exchange = "IKE_AUTH"
    /\ hostR.close_ike_on_child_failure /\ hostR.delete_jobs = 1
    /\ eng.r_st = "SUCCESS"

\* the labels the configuration selects for TSi and TSr are equal, both
\* absent or both the same label, and the label the task holds, if it holds
\* one, is that label
LabelsAgree(cfg, li, lr, held) ==
    Let(CfgSelectLabel(cfg, li), LAMBDA si :
        Let(CfgSelectLabel(cfg, lr), LAMBDA sr :
        /\ si.ok /\ sr.ok
        /\ si.label = sr.label
        /\ held # 0 => si.label = held))

\* the labels of the response do not agree for the initiating task
DisagreeI ==
    ~LabelsAgree(Deref(ti.config), wire.m.label_i, wire.m.label_r, ti.child.label)

\* the labels of the request do not agree for the responding task and the
\* configuration it finds
DisagreeR ==
    /\ ~IsNull(WithConfig.config)
    /\ ~LabelsAgree(Deref(WithConfig.config), tr.labels_i, tr.labels_r, tr.child.label)

\* build_r comes to select_label: the request has selectors and an
\* acceptable proposal, whose key exchange method is that of the KE payload
\* and can be instantiated, and build_r has a nonce
ComesToLabelsR ==
    /\ ~TsMismatch /\ ~ProposalMismatch
    /\ ~HasNotify(wire'.m, INVALID_KE_PAYLOAD)
    /\ ~tr'.ke_failed
    /\ ~(wire.m.exchange = "CREATE_CHILD_SA" /\ tr'.my_nonce = <<>>)

\* C34: select_label succeeds only if the labels selected for TSi and TSr
\* are equal and, when the task holds a label already, equal to that label.
\* Otherwise the negotiation fails and no CHILD_SA is installed: the
\* initiator does not establish, install or go on with more key exchanges;
\* the responder returns SUCCESS without installing and, where build_r
\* comes to the labels, answers with TS_UNACCEPTABLE alone.
C34_LabelsMustAgree ==
    [][/\ (FirstResponseI /\ ~IsNull(wire.m.sa) /\ DisagreeI) =>
            /\ ~ti'.established
            /\ hostI'.installs = hostI.installs
            /\ hostI'.child_sas = hostI.child_sas
            /\ ti'.build # "build_i_multi_ke"
       /\ (FirstResponseR /\ DisagreeR) =>
            /\ eng'.r_st = "SUCCESS"
            /\ ~tr'.established
            /\ hostR'.installs = hostR.installs
            /\ hostR'.child_sas = hostR.child_sas
            /\ IsNull(wire'.m.sa)
            /\ ComesToLabelsR => ErrorResponse({TS_UNACCEPTABLE})
       /\ (FirstResponseI /\ ti'.established) =>
            ti'.child.label = CfgSelectLabel(Deref(ti.config), wire.m.label_i).label
       /\ (FirstResponseR /\ tr'.established) =>
            tr'.child.label = CfgSelectLabel(Deref(tr'.config), tr.labels_r).label]_vars

\* C34 happens: the request had one label with TSi and another with TSr,
\* both acceptable to the configuration with the generic SELinux label; the
\* responder answered TS_UNACCEPTABLE and installed nothing
C34_Witness ==
    /\ eng.r_handler = "build_r" /\ eng.r_st = "SUCCESS"
    /\ tr.config = Ptr(CfgSelinux)
    /\ tr.labels_i # 0 /\ tr.labels_r # 0 /\ tr.labels_i # tr.labels_r
    /\ wire.kind = "resp" /\ wire.m.notifies = <<Notify(TS_UNACCEPTABLE, <<>>)>>
    /\ ~IsNull(tr.proposal)
    /\ hostR.installs = <<>> /\ ~tr.established

\* C34 happens: the initiating task has the label of its acquire, the
\* response returned another label with both TS payloads, and the task
\* installed nothing
C34_WitnessHeld ==
    /\ eng.i_handler = "process_i" /\ eng.turn # "i_process"
    /\ ti.config = Ptr(CfgSelinux)
    /\ ti.labels_i # 0 /\ ti.labels_i = ti.labels_r
    /\ ti.child.label # 0 /\ ti.child.label # ti.labels_i
    /\ ~IsNull(ti.proposal)
    /\ hostI.installs = <<>> /\ ~ti.established

\* C34 happens: the labels agree with each other and with the label the
\* initiating task has, and the CHILD_SA is established with it
C34_WitnessAgree ==
    /\ eng.i_handler = "process_i" /\ ti.established
    /\ ti.config = Ptr(CfgSelinux)
    /\ ti.labels_i = 2 /\ ti.labels_r = 2 /\ ti.child.label = 2
    /\ hostI.child_sas # <<>>

\* the task established its CHILD_SA in this step
EstablishesI == ~ti.established /\ ti'.established
EstablishesR == eng.turn = "r_build" /\ ~tr.established /\ tr'.established

\* the child_updown events with TRUE the step raised on the host
Raised(x, y) == y.updown - x.updown

\* C35: a task raises child_updown with TRUE once, in the step in which it
\* establishes its CHILD_SA, if it is not a rekey task; a rekey task and a
\* task that does not establish its CHILD_SA never raise it.  A task that
\* has established stays so, and the one initiating task of a run has
\* raised the event once if it is established and not a rekey task, and
\* not at all otherwise.
C35_UpdownOnceIfEstablished ==
    [][/\ Raised(hostI, hostI') = IF EstablishesI /\ ~ti.rekey THEN 1 ELSE 0
       /\ Raised(hostR, hostR') = IF EstablishesR /\ ~tr.rekey THEN 1 ELSE 0
       /\ ti.established => ti'.established /\ ti'.rekey = ti.rekey
       /\ (tr.established /\ eng.turn = "r_build") => tr'.established
       /\ hostI'.updown = IF ti'.established /\ ~ti'.rekey THEN 1 ELSE 0]_vars

\* C35 happens: both tasks established the CHILD_SA of a negotiation that
\* is no rekeying, and each raised the event once
C35_Witness ==
    /\ eng.peer = "honest" /\ eng.turn = "done"
    /\ ti.established /\ tr.established /\ ~ti.rekey /\ ~tr.rekey
    /\ hostI.updown = 1 /\ hostR.updown = 1

\* C35 happens: a rekey task established its CHILD_SA without the event
C35_WitnessRekey ==
    /\ eng.turn = "done" /\ ti.established /\ ti.rekey
    /\ hostI.updown = 0 /\ hostI.child_sas # <<>>

\* C35 happens: the installation failed after several key exchanges, and
\* the task raised no event
C35_WitnessFailed ==
    /\ eng.i_handler = "process_i_multi_ke" /\ ~ti.established /\ ~ti.rekey
    /\ hostI.installs # <<>> /\ hostI.updown = 0

(***************************************************************************)
(* narrow_ts has get_transport_nat_ts substitute the addresses of the      *)
(* selectors a task received.                                              *)
(***************************************************************************)
\* selectors of a range (0) or of one of the addresses 1..MaxTsHost, with a
\* port of 0..MaxTsPort
TsLists ==
    SeqsUpTo({Ts(h, p) : h \in 0..MaxTsHost, p \in 0..MaxTsPort}, MaxTsLen)

\* the task has the selectors in of a message; the IKE_SA is between the
\* addresses me and other
InitTs ==
    \E in \in TsLists, me \in 1..MaxTsHost :
        /\ ti = [child_create_create(Ptr(CfgPfs), FALSE, NULL, NULL)
                    EXCEPT !.tsi = Ptr(in), !.mode = "TRANSPORT"]
        /\ tr = child_create_create(NULL, FALSE, NULL, NULL)
        /\ hostI = [Host(me, MaxTsHost + 1) EXCEPT !.nat_here = TRUE, !.nat_there = TRUE]
        /\ hostR = Host(MaxTsHost + 1, me)
        /\ wire = Wire("none", Message("NONE"))
        /\ eng = [Engine("honest", "CREATE_CHILD_SA", FALSE, NULL)
                     EXCEPT !.turn = "done"]
        /\ lower = NULL

\* narrow_ts calls get_transport_nat_ts for the local or the remote side
\* with the list of the task, which the function reads and clones from
NarrowTransportNat ==
    /\ eng.turn = "done"
    /\ IsNull(lower)
    /\ \E local \in BOOLEAN :
        lower' = Ptr([local |-> local,
                      nat |-> get_transport_nat_ts(hostI, local, Deref(ti.tsi))])
    /\ UNCHANGED <<ti, tr, hostI, hostR, wire, eng>>

SpecTs == InitTs /\ [][NarrowTransportNat]_vars

\* the address of the first selector of the list that is for one host
\* (0: the list has none)
FirstHostOf(in) ==
    Let({i \in 1..Len(in) : in[i].host # 0}, LAMBDA hosts :
        IF hosts = {} THEN 0
        ELSE in[CHOOSE i \in hosts : \A j \in hosts : i <= j].host)

\* the selectors of the list for that one host, in the order of the list,
\* each with the address ike instead and the port it has
SubstitutedFor(in, ike) ==
    Let(SelectSeq(in, LAMBDA ts : ts.host # 0 /\ ts.host = FirstHostOf(in)), LAMBDA same :
        [k \in 1..Len(same) |-> Ts(ike, same[k].port)])

\* C36: get_transport_nat_ts returns, in the order of the input, exactly
\* the selectors of the input that are for a single host and for the
\* address of the first such selector of the list, each with the address of
\* the IKE endpoint (the local or the remote one, as asked) in place of its
\* own and with its ports unchanged; the input list stays as it is.
C36_TransportNatSubstitutes ==
    [][~IsNull(lower') =>
            /\ Deref(lower').nat =
                    SubstitutedFor(Deref(ti.tsi),
                                   IF Deref(lower').local THEN hostI.me ELSE hostI.other)
            /\ ti'.tsi = ti.tsi]_vars

\* C36 happens: the list has a range, a selector for one host and, after
\* it, selectors for that host and for another one; two selectors come
\* back, with the remote address of the IKE_SA
C36_Witness ==
    /\ ~IsNull(lower) /\ ~IsNull(ti.tsi)
    /\ ~Deref(lower).local
    /\ \E a \in 1..MaxTsHost, b \in 1..MaxTsHost :
        /\ a # b /\ a # hostI.other
        /\ Deref(ti.tsi) = <<Ts(0, 0), Ts(a, 1), Ts(b, 0), Ts(a, 0)>>
        /\ Deref(lower).nat = <<Ts(hostI.other, 1), Ts(hostI.other, 0)>>

\* C36 happens: no selector of the list is for one host, nothing comes back
C36_WitnessNone ==
    /\ ~IsNull(lower) /\ ~IsNull(ti.tsi)
    /\ Deref(ti.tsi) = <<Ts(0, 0), Ts(0, 1)>>
    /\ Deref(lower).nat = <<>>

\* C37: once abort() was called on an initiating task, no round of the
\* task installs a CHILD_SA, whatever the peer answers: in every step from
\* then on established stays FALSE, no SA or policy is installed in the
\* kernel and the IKE_SA gets no CHILD_SA; and the task stays aborted.
C37_AbortedNeverInstalls ==
    [][ti.aborted => (NothingInstalled /\ ti'.aborted)]_vars

\* C37 happens: the task was aborted while the response to its first
\* request was under way; the response was acceptable and complete, and the
\* task installed nothing
C37_Witness ==
    /\ ti.aborted /\ eng.i_handler = "process_i" /\ eng.turn # "i_process"
    /\ ~IsNull(wire.m.sa) /\ wire.m.notifies = <<>>
    /\ ~IsNull(ti.proposal) /\ ti.my_spi # 0
    /\ ~ti.established /\ hostI.installs = <<>> /\ hostI.child_sas = <<>>

\* C37 happens: the task was aborted during a later key exchange, whose
\* response came with the peer's public value, and installed nothing
C37_WitnessLater ==
    /\ ti.aborted /\ eng.i_handler = "process_i_multi_ke" /\ eng.turn # "i_process"
    /\ wire.kind = "resp" /\ wire.m.ke # <<>> /\ wire.m.notifies = <<>>
    /\ ~ti.ke_failed
    /\ ~ti.established /\ hostI.installs = <<>> /\ hostI.child_sas = <<>>

\* the peer's public value was applied to every session the task has
\* completed, and the slots of the plan that are marked done are those of
\* the completed sessions
SessionsApplied(t) ==
    /\ \A j \in 1..Len(t.kes) : t.kes[j].peer # "none"
    /\ \A s \in Slots : t.key_exchanges[s].done => s < Len(t.kes)

\* C38 as stated: a task appends a key exchange session to its completed
\* sessions, and marks the slot done, only after the peer's public value
\* for it was received and set_public_key accepted it; as initiator and as
\* responder, in the first round and in the rounds that follow, and also
\* when the peer's message has no KE payload.
C38_AsStated == SessionsApplied(ti) /\ SessionsApplied(tr)

\* C38 holds of the responder in every round, and of the initiator in the
\* rounds of IKE_FOLLOWUP_KE: a session completed there has the public
\* value of the peer
C38_ResponderAndFollowUp ==
    /\ SessionsApplied(tr)
    /\ \A j \in 2..Len(ti.kes) : ti.kes[j].peer # "none"

\* C38 fails: the response to the first request selected the key exchange
\* method of the request and had no KE payload; the initiator completed the
\* session nevertheless
C38_Witness ==
    /\ eng.i_handler = "process_i"
    /\ wire.kind = "resp" /\ wire.m.ke = <<>> /\ ~IsNull(wire.m.sa)
    /\ Len(ti.kes) >= 1 /\ ti.kes[1].peer = "none"
    /\ ti.key_exchanges[0].done

\* a run of install_child_sa in this step handed SAs with CPI 0 to the
\* kernel because one of the two CPIs was zero
ZeroCpiInstalled(x, y) ==
    \E a \in NewAttempts(x, y) : a.derived /\ a.in_cpi = 0 /\ a.out_cpi = 0

\* the IPComp transform set on the CHILD_SA object of the task
IpcompOf(t) == Deref(t.child_sa).ipcomp

\* C39 as stated: whenever install_child_sa installs SAs with CPI 0, the
\* IPComp transform it set on the CHILD_SA object is IPCOMP_NONE: the
\* transform of the CHILD_SA is another one only if both CPIs handed to the
\* kernel are not zero.
C39_AsStated ==
    [][/\ (ZeroCpiInstalled(hostI, hostI') /\ ~IsNull(ti'.child_sa)) =>
            IpcompOf(ti') = IPCOMP_NONE
       /\ (ZeroCpiInstalled(hostR, hostR') /\ ~IsNull(tr'.child_sa)) =>
            IpcompOf(tr') = IPCOMP_NONE]_vars

\* C39 holds of what the task keeps and hands to the kernel: the CPIs of a
\* run are both zero or both not, and after a run with CPI 0 the task's own
\* transform is IPCOMP_NONE; and between two peers that are this
\* implementation C39 is as stated
C39_TaskAndHonest ==
    [][/\ \A a \in NewAttempts(hostI, hostI') \cup NewAttempts(hostR, hostR') :
              (a.in_cpi = 0) <=> (a.out_cpi = 0)
       /\ ZeroCpiInstalled(hostI, hostI') => ti'.ipcomp = IPCOMP_NONE
       /\ ZeroCpiInstalled(hostR, hostR') => tr'.ipcomp = IPCOMP_NONE
       /\ (eng.peer = "honest" /\ ZeroCpiInstalled(hostI, hostI')
              /\ ~IsNull(ti'.child_sa)) => IpcompOf(ti') = IPCOMP_NONE
       /\ (eng.peer = "honest" /\ ZeroCpiInstalled(hostR, hostR')
              /\ ~IsNull(tr'.child_sa)) => IpcompOf(tr') = IPCOMP_NONE]_vars

\* C39 fails: the peer answered the IPCOMP_SUPPORTED of the request with
\* the CPI 0; the SAs are installed with CPI 0 and the CHILD_SA the IKE_SA
\* got has the transform IPCOMP_DEFLATE
C39_Witness ==
    /\ ti.established /\ hostI.installs # <<>> /\ hostI.child_sas # <<>>
    /\ LastInstall(hostI).in_cpi = 0 /\ LastInstall(hostI).out_cpi = 0
    /\ LastInstall(hostI).status = "SUCCESS"
    /\ hostI.child_sas[Len(hostI.child_sas)].ipcomp = IPCOMP_DEFLATE
    /\ ti.ipcomp = IPCOMP_NONE

\* C39 fails for the responder as well, whose own CPI is not zero
C39_WitnessResponder ==
    /\ tr.established /\ hostR.installs # <<>> /\ hostR.child_sas # <<>>
    /\ LastInstall(hostR).in_cpi = 0 /\ LastInstall(hostR).out_cpi = 0
    /\ hostR.child_sas[Len(hostR.child_sas)].ipcomp = IPCOMP_DEFLATE
    /\ HasNotify(wire.m, IPCOMP_SUPPORTED)

(***************************************************************************)
(* A run on one IKE_SA in which every message is handled: the task         *)
(* managers hand each message to the task and send what it builds, and the *)
(* peer answers every request.                                             *)
(***************************************************************************)
\* what the task managers and an answering peer do
Handle ==
    \/ InitiatorBuild
    \/ ResponderProcess
    \/ ResponderBuild
    \/ InitiatorProcess
    \/ ForgedResponse

NextRun ==
    \/ Handle
    \/ ForgedRequest
    \/ Abort

\* the state a step leaves
After(t_i, t_r, x_i, x_r, w, g) ==
    [ti |-> t_i, tr |-> t_r, hostI |-> x_i, hostR |-> x_r, wire |-> w, eng |-> g]

\* the states the steps of Handle lead to from the current state, each
\* computed as the action of the turn computes it
Handled ==
    CASE eng.turn = "i_build" ->
           {Let(BuildI(ti, hostI, Message(RequestExchange), e), LAMBDA r :
                Let(r.m.exchange # "UNDEFINED" /\ r.st \in {"NEED_MORE", "SUCCESS"},
                    LAMBDA sent :
                Let(r.st # "NEED_MORE", LAMBDA over :
                After(r.t, tr, IF over THEN destroy(r.t, r.x) ELSE r.x, hostR,
                      IF sent THEN Wire("req", r.m) ELSE Wire("none", r.m),
                      [eng EXCEPT !.turn = IF over \/ ~sent THEN "done" ELSE "r_process",
                                  !.i_st = r.st, !.i_handler = ti.build,
                                  !.faults = Faults(e),
                                  !.requests = IF sent THEN @ + 1 ELSE @])))) :
               e \in {f \in EnvsBuildI : MayUse(f)}}
      [] eng.turn = "r_process" /\ eng.peer = "forged_r" ->
           {After(ti, tr, hostI, hostR, Wire("resp", m),
                  [eng EXCEPT !.turn = "i_process", !.forged = @ + 1]) :
               m \in ForgedResponses(wire.m.exchange)}
      [] eng.turn = "r_process" /\ eng.peer # "forged_r" ->
           IF /\ wire.m.exchange \in {"IKE_AUTH", "CREATE_CHILD_SA", "IKE_FOLLOWUP_KE"}
              /\ wire.m.exchange = "IKE_FOLLOWUP_KE" => eng.r_active
           THEN {Let(      IF wire.m.exchange = "CREATE_CHILD_SA"
                           THEN child_create_create(NULL, eng.rekey, NULL, NULL)
                           ELSE tr, LAMBDA t0 :
                     Let(ProcessR(t0, hostR, wire.m), LAMBDA r :
                     After(ti, r.t, hostI, r.x, wire,
                           [eng EXCEPT !.turn = "r_build", !.r_active = TRUE,
                                       !.r_handler = t0.process])))}
           ELSE {}
      [] eng.turn = "r_build" ->
           {Let(     BuildR(tr, hostR, Message(wire.m.exchange),
                            [e EXCEPT !.nonce = <<1, 0>>, !.found = eng.cfg_r]), LAMBDA r :
                Let(r.st # "NEED_MORE", LAMBDA over :
                After(ti, r.t, hostI, IF over THEN destroy(r.t, r.x) ELSE r.x,
                      Wire("resp", r.m),
                      [eng EXCEPT !.turn = IF eng.peer = "forged_i" THEN "forge"
                                           ELSE "i_process",
                                  !.r_st = r.st, !.r_handler = tr.build,
                                  !.faults = Faults(e),
                                  !.r_active = ~over]))) :
               e \in {f \in EnvsBuildR : MayUse(f)}}
      [] eng.turn = "i_process" ->
           {Let(ProcessI(ti, hostI, wire.m, e), LAMBDA r :
                Let(r.st # "NEED_MORE", LAMBDA over :
                After(r.t, tr, IF over THEN destroy(r.t, r.x) ELSE r.x, hostR, wire,
                      [eng EXCEPT !.turn = IF over THEN "done" ELSE "i_build",
                                  !.first = FALSE, !.faults = Faults(e),
                                  !.i_st = r.st, !.i_handler = ti.process]))) :
               e \in {f \in EnvsInstall : MayUse(f)}}
      [] OTHER -> {}

\* a step of Handle, taken from Handled: the same steps (HandleIsAnswer)
Answer ==
    /\ \E n \in Handled :
        /\ ti' = n.ti /\ tr' = n.tr
        /\ hostI' = n.hostI /\ hostR' = n.hostR
        /\ wire' = n.wire /\ eng' = n.eng
    /\ UNCHANGED lower

\* either primary method, the first preferred, and an additional key
\* exchange: esp_proposals = aes128gcm128-x25519-modp3072-ke1_mlkem768
CfgEither ==
    ChildCfg("either",
             <<Proposal(1, 0, (KEY_EXCHANGE_METHOD :> <<1, 2>>) @@
                              (ADDITIONAL_KEY_EXCHANGE_1 :> <<2>>))>>,
             "TUNNEL", FALSE)

\* the second primary method only, and the additional key exchange:
\* esp_proposals = aes128gcm128-modp3072-ke1_mlkem768
CfgOther ==
    ChildCfg("other",
             <<Proposal(1, 0, (KEY_EXCHANGE_METHOD :> <<2>>) @@
                              (ADDITIONAL_KEY_EXCHANGE_1 :> <<2>>))>>,
             "TUNNEL", FALSE)

\* configurations with three key exchanges, and with two key exchanges and
\* the one or the other primary method, which make the responder ask for
\* the other method
RunConfigs == {CfgGap, CfgEither, CfgOther}

\* Init with these configurations, for a CHILD_SA that is no rekeying
InitRun ==
    \E peer \in {"honest", "forged_r", "forged_i"},
       cfg \in RunConfigs, cfg_r \in {NULL} \cup {Ptr(c) : c \in RunConfigs},
       exchange \in {"IKE_AUTH", "CREATE_CHILD_SA"} :
        /\ peer = "forged_r" => cfg_r = NULL
        /\ peer = "forged_i" => cfg = CfgGap /\ exchange = "CREATE_CHILD_SA"
        /\ ti = WithInitNonces(child_create_create(Ptr(cfg), FALSE, NULL, NULL), exchange,
                               <<0, 1>>, <<1, 0>>)
        /\ tr = WithInitNonces(child_create_create(NULL, FALSE, NULL, NULL), exchange,
                               <<1, 0>>, <<0, 1>>)
        /\ hostI = Host(1, 2)
        /\ hostR = Host(2, 1)
        /\ wire = Wire("none", Message("NONE"))
        /\ eng = Engine(peer, exchange, FALSE, cfg_r)
        /\ lower = NULL

\* weak fairness of Answer, WF_vars(Answer): ENABLED <<Answer>>_vars is
\* written as the state predicate it is, that Handled has a state
AnswerFair == []<>(Handled = {}) \/ []<><<Answer>>_vars

\* the task manager handles every message it has, and a peer that has a
\* request answers it
SpecRun == InitRun /\ [][NextRun]_vars /\ AnswerFair

\* Answer and Handle are the same steps
HandleIsAnswer == [][Handle <=> Answer]_vars

TerminalStatus == {"SUCCESS", "FAILED", "DESTROY_ME"}

\* the initiating task is over
OverI == eng.turn = "done" /\ eng.i_st \in TerminalStatus

\* a request is with the responding task
RequestPending == eng.peer # "forged_r" /\ eng.turn \in {"r_process", "r_build"}

\* a step in which the initiating task processes a response and wants to
\* build again
GoesOnI == eng.turn = "i_process" /\ eng'.i_st = "NEED_MORE"

\* a step in which the responding task builds a response and waits for
\* another request
GoesOnR == eng.turn = "r_build" /\ eng'.r_st = "NEED_MORE"

\* C40: with every request answered, the initiating task reaches a terminal
\* status and the responding task answers every request.  The rounds are
\* bounded: a response makes the initiator start over with build_i only
\* once, for the first INVALID_KE_PAYLOAD (retry not set before), or go on
\* with the next key exchange of a plan of at most MAX_KEY_EXCHANGES
\* entries, or build the one DELETE; the DELETE round ends the task; the
\* responder returns SUCCESS or NEED_MORE, and NEED_MORE only with a key
\* exchange of the plan left; no run has more than
\* 2 * MAX_KEY_EXCHANGES + 1 requests.
C40_Terminates ==
    /\ (eng.peer # "forged_i") ~> OverI
    /\ RequestPending ~> ~RequestPending
    /\ [][/\ GoesOnI =>
                \/ /\ ti'.build = "build_i" /\ ~ti.retry /\ ti'.retry
                   /\ ti.process = "process_i"
                \/ /\ ti'.build = "build_i_multi_ke"
                   /\ ti'.ke_index = ti.ke_index + 1
                   /\ ti'.ke_index < PlanSize(ti'.key_exchanges)
                   /\ PlanSize(ti'.key_exchanges) <= MAX_KEY_EXCHANGES
                \/ /\ ti'.build = "build_i_delete" /\ ti.build # "build_i_delete"
          /\ (eng.turn = "i_build" /\ ti.build = "build_i_delete") =>
                eng'.turn = "done" /\ eng'.i_st = "SUCCESS"
          /\ eng.turn = "r_build" => eng'.r_st \in {"SUCCESS", "NEED_MORE"}
          /\ GoesOnR =>
                /\ tr'.ke_index = tr.ke_index + 1
                /\ tr'.ke_index < PlanSize(tr'.key_exchanges)
                /\ PlanSize(tr'.key_exchanges) <= MAX_KEY_EXCHANGES
          /\ eng'.requests <= 2 * MAX_KEY_EXCHANGES + 1]_vars

\* C40 happens: the task retried after INVALID_KE_PAYLOAD, made more than
\* one key exchange in its second attempt, sent the DELETE and is over
C40_Witness ==
    /\ OverI /\ ti.retry
    /\ eng.i_handler = "build_i_delete" /\ ti.process = "process_i_multi_ke"
    /\ eng.requests >= 4

\* C40 happens: the responding task returned SUCCESS in the last round of
\* a plan of three key exchanges
C40_WitnessResponder ==
    /\ eng.r_handler = "build_r_multi_ke" /\ eng.r_st = "SUCCESS"
    /\ tr.ke_index = 3 /\ PlanSize(tr.key_exchanges) = 3
    /\ tr.established
====
